---------------------------- MODULE Spec2Model ----------------------------
(***************************************************************************)
(* Model of the LRU cache with TTL support (type Cache, src/main.go lines  *)
(* 745-970).  The cache couples a map (data) with a recency list (lru);    *)
(* every operation runs under c.mutex.                                     *)
(*                                                                         *)
(* Time is a discrete clock `now`; a time.Time is an integer tick, a nil   *)
(* pointer (to a Time or a Duration) is the empty sequence and a           *)
(* non-nil pointer to x is <<x>>.  A []byte value is a sequence of bytes.  *)
(* The recency list is the sequence of its nodes front to back; a node is  *)
(* represented by the Key of the entry it holds.                           *)
(***************************************************************************)
EXTENDS Integers, Sequences, FiniteSets, TLC

\* ------------------------------------------------------------------ bounds
MaxTime == 2        \* the clock stops advancing at this tick
MaxAccess == 2      \* a successful Get needs AccessCount below this cap
MaxHist == 5        \* longest call history of the scripted specification
MaxGets == 1        \* most Get calls in one such history
ConcMaxTime == 1    \* the clock of the concurrent specification stops here

\* ------------------------------------------------------------------ inputs
Keys == {"A", "B"}
Values == {<<1>>, <<2, 3>>}
NilValue == <<>>
NilPtr == <<>>
TTLs == {NilPtr, <<0>>, <<1>>}
Capacities == {-1, 0, 1, 2}

\* inputs of the concurrent specification
Procs == {"p1", "p2"}
ConcTTLs == {NilPtr, <<0>>}
ConcCapacities == {1, 2}

\* inputs of the scripted specification
LRUKeys == {"A", "B", "C", "D"}
LRUCapacities == {1, 2, 3}
LRUValue == <<1>>

\* inputs of the reaped and unreaped runs
TwinKeys == {"A", "B", "C"}
TwinCapacities == {1, 2}

\* inputs of the specification with three keys
FrameKeys == {"A", "B", "C"}
FrameCapacities == {1, 2, 3}

\* inputs of the specification with TTLs of either sign
ExpiryTTLs == {NilPtr, <<-1>>, <<0>>, <<1>>}

\* numbers of Config.Validate
MaxPort == 65535         \* the highest port Validate accepts
MinMaxMemory == 1048576  \* 1024*1024, the least MaxMemory Validate accepts
Minute == 60             \* time.Minute; durations are counted in seconds

\* inputs of the configuration specification: the values each field that
\* Validate reads may have once flags, file and environment are applied
Ports == {0, 1, 6379, 65535, 65536}
HTTPPorts == {0, 8080, 65536}
MaxMemories == {0 - 1, 1048575, 1048576, 512 * 1024 * 1024}
ShardCounts == {0, 1, 16}
SeedLists == {<<>>, <<"node1:7946">>}
JWTSecrets == {"", "secret"}
JWTExpiries == {0, 59, 60, 24 * 3600}

\* inputs of the specification with waiting calls
LiveCapacities == {-1, 0, 1}
LiveKeys == {"A"}

VARIABLES
    data,         \* Cache.data: key -> entry
    lru,          \* Cache.lru: list nodes, front first
    maxSize,      \* Cache.maxSize
    currentSize,  \* Cache.currentSize
    now,          \* the clock read by time.Now()
    ret,          \* the last call that returned and what it returned
    hist,         \* the calls made so far (scripted specification only)
    mutex,        \* Cache.mutex: the writer and the readers holding it
    proc,         \* per goroutine: the call in progress, its position and locals
    written,      \* per key, the value of the latest Set in lock order
    twin,         \* a second cache given the same calls but never reaped, and its last result
    load          \* LoadConfig: the Config being loaded, its position and what it returns

conc == <<mutex, proc, written>>
vars == <<data, lru, maxSize, currentSize, now, ret, hist, mutex, proc, written, twin,
          load>>

\* --------------------------------------------------------- data structures
\* The cache as one value, so that operations are functions on it.
Cache == [data |-> data, lru |-> lru, maxSize |-> maxSize, currentSize |-> currentSize]

\* map helpers
MapDelete(m, k) == [x \in (DOMAIN m) \ {k} |-> m[x]]
MapPut(m, k, e) == [x \in (DOMAIN m) \cup {k} |-> IF x = k THEN e ELSE m[x]]
EmptyMap == [x \in {} |-> 0]

\* container/list helpers
IndexOf(l, k) == IF \E i \in 1..Len(l) : l[i] = k
                 THEN CHOOSE i \in 1..Len(l) : l[i] = k /\ \A j \in 1..(i-1) : l[j] # k
                 ELSE 0
ListRemove(l, k) ==
    LET i == IndexOf(l, k)
    IN IF i = 0 THEN l ELSE SubSeq(l, 1, i-1) \o SubSeq(l, i+1, Len(l))
ListPushFront(l, k) == <<k>> \o l
ListMoveToFront(l, k) == IF IndexOf(l, k) = 0 THEN l ELSE <<k>> \o ListRemove(l, k)
ListBack(l) == l[Len(l)]

\* An expiry test that counts the instant of expiry itself as expired.
IsExpired_inclusive(e, t) == e.ExpiresAt # NilPtr /\ t >= e.ExpiresAt[1]

\* An expiry test that reads a missing ExpiresAt as the zero time.
IsExpired_zeroTime(e, t) == t > (IF e.ExpiresAt = NilPtr THEN 0 ELSE e.ExpiresAt[1])

\* the expiry test: ExpiresAt is set and time.Now() is After it (strictly later)
IsExpired(e, t) == e.ExpiresAt # NilPtr /\ t > e.ExpiresAt[1]

\* CreatedAt is written here and never read again; the model leaves it out.
NewEntry(k, v, ttl, t) ==
    [Key |-> k, Value |-> v, LastAccessed |-> t, AccessCount |-> 0,
     ExpiresAt |-> IF ttl # NilPtr THEN <<t + ttl[1]>> ELSE NilPtr]

NewCache(n) == [data |-> EmptyMap, lru |-> <<>>, maxSize |-> n, currentSize |-> 0]

\* removeEntry that forgets the list node.
removeEntry_keepsNode(c, k) ==
    [c EXCEPT !.data = MapDelete(c.data, k),
              !.currentSize = c.currentSize - 1]

removeEntry(c, k) ==
    [c EXCEPT !.lru = ListRemove(c.lru, k),
              !.data = MapDelete(c.data, k),
              !.currentSize = c.currentSize - 1]

\* evictLRU that takes the entry read least often instead of the back of the list.
evictLRU_leastRead(c) ==
    IF Len(c.lru) > 0
    THEN removeEntry(c, CHOOSE k \in DOMAIN c.data :
                           \A j \in DOMAIN c.data :
                               c.data[k].AccessCount <= c.data[j].AccessCount)
    ELSE c

\* evictLRU that takes the front of the list.
evictLRU_front(c) == IF Len(c.lru) > 0 THEN removeEntry(c, c.lru[1]) ELSE c

evictLRU(c) == IF Len(c.lru) > 0 THEN removeEntry(c, ListBack(c.lru)) ELSE c

\* An eviction loop that goes on while the cache is full, not while it is over.
RECURSIVE EvictLoop_whileFull(_)
EvictLoop_whileFull(c) ==
    IF c.currentSize >= c.maxSize /\ Len(c.lru) > 0
    THEN EvictLoop_whileFull(evictLRU(c))
    ELSE c

RECURSIVE EvictLoop(_)
EvictLoop(c) ==
    IF c.currentSize > c.maxSize /\ Len(c.lru) > 0 THEN EvictLoop(evictLRU(c)) ELSE c

\* ------------------------------------------------------------ operations
\* Each operation is a function of the cache and the clock; it yields the
\* cache after the call (.c) and the values returned.

\* Get that, on an expired entry, evicts the back of the list instead of
\* removing the entry it looked up.
GetOp_expiredEvictsBack(c, k, t) ==
    IF k \notin DOMAIN c.data THEN [c |-> c, val |-> NilValue, ok |-> FALSE]
    ELSE IF IsExpired(c.data[k], t)
         THEN [c |-> evictLRU(c), val |-> NilValue, ok |-> FALSE]
         ELSE [c |-> [c EXCEPT !.data[k].AccessCount = @ + 1,
                               !.data[k].LastAccessed = t,
                               !.lru = ListMoveToFront(c.lru, k)],
               val |-> c.data[k].Value, ok |-> TRUE]

\* Get that promotes by exchanging the entry with the one at the front.
GetOp_swapsFront(c, k, t) ==
    IF k \notin DOMAIN c.data THEN [c |-> c, val |-> NilValue, ok |-> FALSE]
    ELSE IF IsExpired(c.data[k], t)
         THEN [c |-> removeEntry(c, k), val |-> NilValue, ok |-> FALSE]
         ELSE LET i == IndexOf(c.lru, k)
              IN [c |-> [c EXCEPT !.data[k].AccessCount = @ + 1,
                                  !.data[k].LastAccessed = t,
                                  !.lru = [j \in 1..Len(c.lru) |->
                                             IF j = 1 THEN k
                                             ELSE IF j = i THEN c.lru[1]
                                             ELSE c.lru[j]]],
                  val |-> c.data[k].Value, ok |-> TRUE]

\* Get that does not move the entry to the front.
GetOp_noPromote(c, k, t) ==
    IF k \notin DOMAIN c.data THEN [c |-> c, val |-> NilValue, ok |-> FALSE]
    ELSE IF IsExpired(c.data[k], t)
         THEN [c |-> removeEntry(c, k), val |-> NilValue, ok |-> FALSE]
         ELSE [c |-> [c EXCEPT !.data[k].AccessCount = @ + 1,
                               !.data[k].LastAccessed = t],
               val |-> c.data[k].Value, ok |-> TRUE]

\* Get without the lazy expiry check.
GetOp_noExpiry(c, k, t) ==
    IF k \notin DOMAIN c.data THEN [c |-> c, val |-> NilValue, ok |-> FALSE]
    ELSE [c |-> [c EXCEPT !.data[k].AccessCount = @ + 1,
                          !.data[k].LastAccessed = t,
                          !.lru = ListMoveToFront(c.lru, k)],
          val |-> c.data[k].Value, ok |-> TRUE]

GetOp(c, k, t) ==
    IF k \notin DOMAIN c.data THEN [c |-> c, val |-> NilValue, ok |-> FALSE]
    ELSE IF IsExpired(c.data[k], t)
         THEN [c |-> removeEntry(c, k), val |-> NilValue, ok |-> FALSE]
         ELSE [c |-> [c EXCEPT !.data[k].AccessCount = @ + 1,
                               !.data[k].LastAccessed = t,
                               !.lru = ListMoveToFront(c.lru, k)],
               val |-> c.data[k].Value, ok |-> TRUE]

SetInsert(c, k, v, ttl, t) ==
    [c EXCEPT !.lru = ListPushFront(c.lru, k),
              !.data = MapPut(c.data, k, NewEntry(k, v, ttl, t)),
              !.currentSize = c.currentSize + 1]

\* Set that carries the access count of the entry it replaces over to the new one.
SetOp_keepsCount(c, k, v, ttl, t) ==
    LET c1 == IF k \in DOMAIN c.data THEN removeEntry(c, k) ELSE c
        c2 == SetInsert(c1, k, v, ttl, t)
        c3 == IF k \in DOMAIN c.data
              THEN [c2 EXCEPT !.data[k].AccessCount = c.data[k].AccessCount]
              ELSE c2
    IN EvictLoop(c3)

\* Set that keeps the expiry of the entry it replaces when no TTL is given.
SetOp_mergesTTL(c, k, v, ttl, t) ==
    LET c1 == IF k \in DOMAIN c.data THEN removeEntry(c, k) ELSE c
        c2 == SetInsert(c1, k, v, ttl, t)
        c3 == IF ttl = NilPtr /\ k \in DOMAIN c.data
              THEN [c2 EXCEPT !.data[k].ExpiresAt = c.data[k].ExpiresAt]
              ELSE c2
    IN EvictLoop(c3)

SetOp(c, k, v, ttl, t) ==
    LET c1 == IF k \in DOMAIN c.data THEN removeEntry(c, k) ELSE c
    IN EvictLoop(SetInsert(c1, k, v, ttl, t))

\* Delete that removes without looking the key up first.
DeleteOp_blind(c, k) == [c |-> removeEntry(c, k), ok |-> k \in DOMAIN c.data]

DeleteOp(c, k) ==
    IF k \in DOMAIN c.data THEN [c |-> removeEntry(c, k), ok |-> TRUE]
    ELSE [c |-> c, ok |-> FALSE]

\* Exists that answers from the index alone and never looks at the expiry.
ExistsOp_noExpiry(c, k, t) == [c |-> c, ok |-> k \in DOMAIN c.data]

\* Exists that removes the expired entry it finds, as Get does.
ExistsOp_removing(c, k, t) ==
    IF k \notin DOMAIN c.data THEN [c |-> c, ok |-> FALSE]
    ELSE IF IsExpired(c.data[k], t) THEN [c |-> removeEntry(c, k), ok |-> FALSE]
         ELSE [c |-> c, ok |-> TRUE]

ExistsOp(c, k, t) ==
    IF k \notin DOMAIN c.data THEN [c |-> c, ok |-> FALSE]
    ELSE IF IsExpired(c.data[k], t) THEN [c |-> c, ok |-> FALSE]
         ELSE [c |-> c, ok |-> TRUE]

\* Clear that resets the map and the counter but keeps the old list.
ClearOp_keepsList(c) == [c EXCEPT !.data = EmptyMap, !.currentSize = 0]

ClearOp(c) == [c EXCEPT !.data = EmptyMap, !.lru = <<>>, !.currentSize = 0]

\* A range loop whose second delete of the key lowers currentSize once more.
RECURSIVE CleanupScan_countsTwice(_, _, _, _)
CleanupScan_countsTwice(c, todo, t, n) ==
    IF todo = {} THEN [c |-> c, n |-> n]
    ELSE LET k == CHOOSE x \in todo : TRUE
         IN IF k \in DOMAIN c.data /\ IsExpired(c.data[k], t)
            THEN CleanupScan_countsTwice(
                     [removeEntry(c, k) EXCEPT !.data = MapDelete(@, k),
                                               !.currentSize = @ - 1],
                     todo \ {k}, t, n + 1)
            ELSE CleanupScan_countsTwice(c, todo \ {k}, t, n)

\* The range loop of Cleanup over the keys still to visit; n counts removals.
RECURSIVE CleanupScan(_, _, _, _)
CleanupScan(c, todo, t, n) ==
    IF todo = {} THEN [c |-> c, n |-> n]
    ELSE LET k == CHOOSE x \in todo : TRUE
         IN IF k \in DOMAIN c.data /\ IsExpired(c.data[k], t)
            THEN CleanupScan([removeEntry(c, k) EXCEPT !.data = MapDelete(@, k)],
                             todo \ {k}, t, n + 1)
            ELSE CleanupScan(c, todo \ {k}, t, n)

\* Cleanup that walks the list from the back and pushes every survivor to
\* the front again, which turns their order round.
CleanupOp_reversesList(c, t) ==
    LET r == CleanupScan(c, DOMAIN c.data, t, 0)
        l == r.c.lru
    IN [c |-> [r.c EXCEPT !.lru = [i \in 1..Len(l) |-> l[Len(l) + 1 - i]]], n |-> r.n]

\* Cleanup that looks at the least recently used entry only.
CleanupOp_backOnly(c, t) ==
    IF c.lru # <<>> /\ ListBack(c.lru) \in DOMAIN c.data
                    /\ IsExpired(c.data[ListBack(c.lru)], t)
    THEN [c |-> removeEntry(c, ListBack(c.lru)), n |-> 1]
    ELSE [c |-> c, n |-> 0]

\* Cleanup that returns after the first expired entry.
CleanupOp_stopsAtFirst(c, t) ==
    LET ex == {k \in DOMAIN c.data : IsExpired(c.data[k], t)}
    IN IF ex = {} THEN [c |-> c, n |-> 0]
       ELSE [c |-> removeEntry(c, CHOOSE k \in ex : TRUE), n |-> 1]

CleanupOp(c, t) == CleanupScan(c, DOMAIN c.data, t, 0)

RECURSIVE SumAccess(_, _)
SumAccess(m, ks) ==
    IF ks = {} THEN 0
    ELSE LET k == CHOOSE x \in ks : TRUE IN m[k].AccessCount + SumAccess(m, ks \ {k})

RECURSIVE SumSize(_, _)
SumSize(m, ks) ==
    IF ks = {} THEN 0
    ELSE LET k == CHOOSE x \in ks : TRUE IN Len(m[k].Value) + SumSize(m, ks \ {k})

\* Hit rate taken over the reads served instead of over the resident entries.
calculateHitRate_perRequest(c) ==
    LET totalRequests == SumAccess(c.data, DOMAIN c.data)
        totalHits == Cardinality({k \in DOMAIN c.data : c.data[k].AccessCount > 0})
    IN IF totalRequests = 0 THEN <<0, 1>> ELSE <<totalHits, totalRequests>>

\* The float64 result as the fraction <<numerator, denominator>>; 0.0 is <<0, 1>>.
calculateHitRate(c) ==
    LET totalRequests == SumAccess(c.data, DOMAIN c.data)
        totalHits == Cardinality({k \in DOMAIN c.data : c.data[k].AccessCount > 0})
    IN IF totalRequests = 0 THEN <<0, 1>> ELSE <<totalHits, Cardinality(DOMAIN c.data)>>

StatsOf(c) ==
    [total_keys |-> Cardinality(DOMAIN c.data),
     max_size |-> c.maxSize,
     current_size |-> c.currentSize,
     total_accesses |-> SumAccess(c.data, DOMAIN c.data),
     total_size_bytes |-> SumSize(c.data, DOMAIN c.data),
     hit_rate |-> calculateHitRate(c)]

StatsOp(c) == [c |-> c, stats |-> StatsOf(c)]

NoStats == [total_keys |-> 0, max_size |-> 0, current_size |-> 0, total_accesses |-> 0,
            total_size_bytes |-> 0, hit_rate |-> <<0, 1>>]

\* ---------------------------------------------------------------- actions
Install(c) ==
    /\ data' = c.data
    /\ lru' = c.lru
    /\ maxSize' = c.maxSize
    /\ currentSize' = c.currentSize

\* What the handler looked up: <<>> when the key is absent, else <<ExpiresAt>>.
Found(c, k) == IF k \in DOMAIN c.data THEN <<c.data[k].ExpiresAt>> ELSE <<>>

\* The record of a returned call.  op, key: the call; ok, val, n, stats: its
\* results; old: what it looked up; removed: the keys it took out of the map.
Ret(op, k, ok, val, n, st, c, c2) ==
    [op |-> op, key |-> k, ok |-> ok, val |-> val, n |-> n, stats |-> st,
     old |-> Found(c, k), removed |-> (DOMAIN c.data) \ (DOMAIN c2.data)]

\* ---------------------------------------------------------- configuration
\* The fields of Config that Validate, the flags or the environment touch, by
\* their place in the struct.
\* time.Duration values are in seconds; a nil slice is the empty sequence.

\* DefaultConfig whose MaxMemory is 512 KB, one factor of 1024 short.
DefaultConfig_kilobytes ==
    [Server |-> [Host |-> "0.0.0.0", Port |-> 6379, HTTPPort |-> 8080],
     Cache |-> [MaxMemory |-> 512 * 1024, ShardCount |-> 16],
     Cluster |-> [Enabled |-> FALSE, Seeds |-> <<>>],
     Security |-> [EnableAuth |-> FALSE, JWTSecret |-> "", JWTExpiry |-> 24 * 3600]]

\* DefaultConfig(): the fields not set in the literal have their zero value.
DefaultConfig ==
    [Server |-> [Host |-> "0.0.0.0", Port |-> 6379, HTTPPort |-> 8080],
     Cache |-> [MaxMemory |-> 512 * 1024 * 1024, ShardCount |-> 16],
     Cluster |-> [Enabled |-> FALSE, Seeds |-> <<>>],
     Security |-> [EnableAuth |-> FALSE, JWTSecret |-> "", JWTExpiry |-> 24 * 3600]]

\* the nil error
NoError == ""

\* Validate that tests the JWT expiry whether or not auth is enabled.
Validate_expiryAlways(c) ==
    IF c.Server.Port < 1 \/ c.Server.Port > MaxPort THEN "invalid server port"
    ELSE IF c.Server.HTTPPort < 1 \/ c.Server.HTTPPort > MaxPort THEN "invalid HTTP port"
    ELSE IF c.Cache.MaxMemory < MinMaxMemory THEN "max memory too small"
    ELSE IF c.Cache.ShardCount < 1 THEN "shard count must be at least 1"
    ELSE IF c.Cluster.Enabled /\ Len(c.Cluster.Seeds) = 0
         THEN "cluster seeds required when clustering is enabled"
    ELSE IF c.Security.EnableAuth /\ c.Security.JWTSecret = ""
         THEN "JWT secret required when auth is enabled"
    ELSE IF c.Security.JWTExpiry < Minute THEN "JWT expiry too short"
    ELSE NoError

\* Config.Validate: the first check that fails gives the error returned.
Validate(c) ==
    IF c.Server.Port < 1 \/ c.Server.Port > MaxPort THEN "invalid server port"
    ELSE IF c.Server.HTTPPort < 1 \/ c.Server.HTTPPort > MaxPort THEN "invalid HTTP port"
    ELSE IF c.Cache.MaxMemory < MinMaxMemory THEN "max memory too small"
    ELSE IF c.Cache.ShardCount < 1 THEN "shard count must be at least 1"
    ELSE IF c.Cluster.Enabled /\ Len(c.Cluster.Seeds) = 0
         THEN "cluster seeds required when clustering is enabled"
    ELSE IF c.Security.EnableAuth /\ c.Security.JWTSecret = ""
         THEN "JWT secret required when auth is enabled"
    ELSE IF c.Security.EnableAuth /\ c.Security.JWTExpiry < Minute
         THEN "JWT expiry too short"
    ELSE NoError

\* LoadConfig not called.
NoLoad == [config |-> DefaultConfig, pc |-> "none", err |-> NoError, out |-> NilPtr]

\* ------------------------------------------------- strconv and strings
\* A Go string that is only copied and compared is a TLA+ string; one that is
\* parsed or split is the sequence of its characters.
Digit == {"0", "1", "2", "3", "4", "5", "6", "7", "8", "9"}

DigitValue(ch) ==
    CASE ch = "0" -> 0 [] ch = "1" -> 1 [] ch = "2" -> 2 [] ch = "3" -> 3
      [] ch = "4" -> 4 [] ch = "5" -> 5 [] ch = "6" -> 6 [] ch = "7" -> 7
      [] ch = "8" -> 8 [] ch = "9" -> 9

\* the number a sequence of digits writes in base 10
RECURSIVE Decimal(_)
Decimal(ds) ==
    IF ds = <<>> THEN 0
    ELSE 10 * Decimal(SubSeq(ds, 1, Len(ds) - 1)) + DigitValue(ds[Len(ds)])

RECURSIVE StripZeros(_)
StripZeros(ds) ==
    IF Len(ds) > 1 /\ ds[1] = "0" THEN StripZeros(Tail(ds)) ELSE ds

\* strconv.ParseInt(s, 10, 64): an optional sign, then at least one digit and
\* nothing else.  A number of more than 19 digits is out of the range of
\* int64; val is then not read by any caller.
ParseInt(s) ==
    LET signed == Len(s) > 0 /\ s[1] \in {"+", "-"}
        body == IF signed THEN Tail(s) ELSE s
        mag == StripZeros(body)
    IN IF body = <<>> \/ \E i \in 1..Len(body) : body[i] \notin Digit
       THEN [val |-> 0, err |-> "invalid syntax"]
       ELSE IF Len(mag) > 19
       THEN [val |-> 0, err |-> "value out of range"]
       ELSE [val |-> IF signed /\ s[1] = "-" THEN 0 - Decimal(mag) ELSE Decimal(mag),
             err |-> NoError]

\* strconv.Atoi: ParseInt in base 10 at the width of int
Atoi(s) == ParseInt(s)

\* strconv.ParseBool: the twelve spellings it accepts
ParseBool(s) ==
    IF s \in {<<"1">>, <<"t">>, <<"T">>, <<"T", "R", "U", "E">>,
              <<"t", "r", "u", "e">>, <<"T", "r", "u", "e">>}
    THEN [val |-> TRUE, err |-> NoError]
    ELSE IF s \in {<<"0">>, <<"f">>, <<"F">>, <<"F", "A", "L", "S", "E">>,
                   <<"f", "a", "l", "s", "e">>, <<"F", "a", "l", "s", "e">>}
    THEN [val |-> FALSE, err |-> NoError]
    ELSE [val |-> FALSE, err |-> "invalid syntax"]

\* strings.Split(s, sep) for a separator of one character
RECURSIVE Split(_, _)
Split(s, sep) ==
    IF \A i \in 1..Len(s) : s[i] # sep THEN <<s>>
    ELSE LET i == CHOOSE j \in 1..Len(s) :
                      s[j] = sep /\ \A h \in 1..(j - 1) : s[h] # sep
         IN <<SubSeq(s, 1, i - 1)>> \o Split(SubSeq(s, i + 1, Len(s)), sep)

\* The second cache before it is built.
NoTwin == [c |-> NewCache(0), ok |-> FALSE, val |-> NilValue]

\* No call in progress, the mutex free.
Idle ==
    [pc |-> "idle", op |-> "", key |-> "", val |-> NilValue, ttl |-> NilPtr,
     rm |-> "", cont |-> "", ok |-> FALSE, out |-> NilValue, n |-> 0, todo |-> {},
     stats |-> NoStats]

ConcInit ==
    /\ mutex = [w |-> "", r |-> {}]
    /\ proc = [p \in Procs |-> Idle]
    /\ written = [k \in Keys |-> NilValue]

Init ==
    /\ \E n \in Capacities :
          /\ data = NewCache(n).data
          /\ lru = NewCache(n).lru
          /\ maxSize = NewCache(n).maxSize
          /\ currentSize = NewCache(n).currentSize
    /\ now = 0
    /\ ret = Ret("NewCache", "", TRUE, NilValue, 0, NoStats, NewCache(0), NewCache(0))
    /\ hist = <<>>
    /\ load = NoLoad
    /\ twin = NoTwin
    /\ ConcInit

Get(k) ==
    /\ k \in DOMAIN data /\ ~IsExpired(data[k], now) => data[k].AccessCount < MaxAccess
    /\ LET r == GetOp(Cache, k, now)
       IN /\ Install(r.c)
          /\ ret' = Ret("Get", k, r.ok, r.val, 0, NoStats, Cache, r.c)
    /\ UNCHANGED <<now, hist, load, twin, conc>>

Set(k, v, ttl) ==
    /\ LET c2 == SetOp(Cache, k, v, ttl, now)
       IN /\ Install(c2)
          /\ ret' = Ret("Set", k, TRUE, NilValue, 0, NoStats, Cache, c2)
    /\ UNCHANGED <<now, hist, load, twin, conc>>

\* Delete that treats an expired entry as absent, the way Get does.
Delete_checksExpiry(k) ==
    /\ LET r == IF k \in DOMAIN data /\ IsExpired(data[k], now)
                THEN [c |-> Cache, ok |-> FALSE]
                ELSE DeleteOp(Cache, k)
       IN /\ Install(r.c)
          /\ ret' = Ret("Delete", k, r.ok, NilValue, 0, NoStats, Cache, r.c)
    /\ UNCHANGED <<now, hist, load, twin, conc>>

Delete(k) ==
    /\ LET r == DeleteOp(Cache, k)
       IN /\ Install(r.c)
          /\ ret' = Ret("Delete", k, r.ok, NilValue, 0, NoStats, Cache, r.c)
    /\ UNCHANGED <<now, hist, load, twin, conc>>

Exists(k) ==
    /\ LET r == ExistsOp(Cache, k, now)
       IN /\ Install(r.c)
          /\ ret' = Ret("Exists", k, r.ok, NilValue, 0, NoStats, Cache, r.c)
    /\ UNCHANGED <<now, hist, load, twin, conc>>

Clear ==
    /\ LET c2 == ClearOp(Cache)
       IN /\ Install(c2)
          /\ ret' = Ret("Clear", "", TRUE, NilValue, 0, NoStats, Cache, c2)
    /\ UNCHANGED <<now, hist, load, twin, conc>>

Cleanup ==
    /\ LET r == CleanupOp(Cache, now)
       IN /\ Install(r.c)
          /\ ret' = Ret("Cleanup", "", TRUE, NilValue, r.n, NoStats, Cache, r.c)
    /\ UNCHANGED <<now, hist, load, twin, conc>>

Stats ==
    /\ LET r == StatsOp(Cache)
       IN /\ Install(r.c)
          /\ ret' = Ret("Stats", "", TRUE, NilValue, 0, r.stats, Cache, r.c)
    /\ UNCHANGED <<now, hist, load, twin, conc>>

\* The clock advances between calls.
Tick ==
    /\ now < MaxTime
    /\ now' = now + 1
    /\ UNCHANGED <<data, lru, maxSize, currentSize, ret, hist, load, twin, conc>>

Next ==
    \/ \E k \in Keys : Get(k)
    \/ \E k \in Keys, v \in Values, ttl \in TTLs : Set(k, v, ttl)
    \/ \E k \in Keys : Delete(k)
    \/ \E k \in Keys : Exists(k)
    \/ Clear
    \/ Cleanup
    \/ Stats
    \/ Tick

Spec == Init /\ [][Next]_vars

\* ------------------------------------------------- scripted specification
\* Calls of Set (no TTL) and Get on a fresh cache, with the calls recorded in
\* hist as <<op, key, found>>.
InitLRU ==
    /\ \E n \in LRUCapacities :
          /\ data = NewCache(n).data
          /\ lru = NewCache(n).lru
          /\ maxSize = NewCache(n).maxSize
          /\ currentSize = NewCache(n).currentSize
    /\ now = 0
    /\ ret = Ret("NewCache", "", TRUE, NilValue, 0, NoStats, NewCache(0), NewCache(0))
    /\ hist = <<>>
    /\ load = NoLoad
    /\ twin = NoTwin
    /\ ConcInit

HistSet(k) ==
    /\ Len(hist) < MaxHist
    /\ LET c2 == SetOp(Cache, k, LRUValue, NilPtr, now)
       IN /\ Install(c2)
          /\ ret' = Ret("Set", k, TRUE, NilValue, 0, NoStats, Cache, c2)
    /\ hist' = Append(hist, <<"Set", k, TRUE>>)
    /\ UNCHANGED <<now, twin, conc, load>>

HistGet(k) ==
    /\ Len(hist) < MaxHist
    /\ Cardinality({i \in 1..Len(hist) : hist[i][1] = "Get"}) < MaxGets
    /\ LET r == GetOp(Cache, k, now)
       IN /\ Install(r.c)
          /\ ret' = Ret("Get", k, r.ok, r.val, 0, NoStats, Cache, r.c)
          /\ hist' = Append(hist, <<"Get", k, r.ok>>)
    /\ UNCHANGED <<now, twin, conc, load>>

NextLRU ==
    \/ \E k \in LRUKeys : HistSet(k)
    \/ \E k \in LRUKeys : HistGet(k)

SpecLRU == InitLRU /\ [][NextLRU]_vars

\* ----------------------------------------------- concurrent specification
\* Goroutines call the cache concurrently.  A call takes c.mutex when it
\* starts (Lock, or RLock in Exists and Stats), runs the statements of its
\* handler one step at a time and releases the mutex when it returns.  The
\* clock may tick between any two steps.

\* Cleanup under the shared lock, as if it only read the map.
LockMode_cleanupShared(op) == IF op \in {"Exists", "Stats", "Cleanup"} THEN "R" ELSE "W"

\* Every handler but Exists and Stats takes the mutex with Lock.
LockMode_getShared(op) == IF op \in {"Exists", "Stats", "Get"} THEN "R" ELSE "W"

LockMode(op) == IF op \in {"Exists", "Stats"} THEN "R" ELSE "W"

\* A mutex whose Lock waits for the writer only and not for the readers.
CanLock_ignoresReaders(m, mode) == m.w = ""

\* sync.RWMutex: Lock needs no holder at all, RLock needs no writer.
CanLock(m, mode) == IF mode = "W" THEN m.w = "" /\ m.r = {} ELSE m.w = ""
Locked(m, mode, p) == IF mode = "W" THEN [m EXCEPT !.w = p] ELSE [m EXCEPT !.r = @ \cup {p}]
Unlocked(m, mode, p) == IF mode = "W" THEN [m EXCEPT !.w = ""] ELSE [m EXCEPT !.r = @ \ {p}]

\* the first statement of each handler after it has the mutex
FirstPc(op) ==
    CASE op \in {"Get", "Set", "Delete", "Exists"} -> "lookup"
      [] op = "Clear" -> "clear_map"
      [] op = "Cleanup" -> "range"
      [] op = "Stats" -> "stats"

InitConc ==
    /\ \E n \in ConcCapacities :
          /\ data = NewCache(n).data
          /\ lru = NewCache(n).lru
          /\ maxSize = NewCache(n).maxSize
          /\ currentSize = NewCache(n).currentSize
    /\ now = 0
    /\ ret = Ret("NewCache", "", TRUE, NilValue, 0, NoStats, NewCache(0), NewCache(0))
    /\ hist = <<>>
    /\ load = NoLoad
    /\ twin = NoTwin
    /\ ConcInit

\* p calls op and gets the mutex.
Call(p, op, k, v, ttl) ==
    /\ proc[p].pc = "idle"
    /\ CanLock(mutex, LockMode(op))
    /\ (op = "Get" /\ k \in DOMAIN data) => data[k].AccessCount < MaxAccess
    /\ mutex' = Locked(mutex, LockMode(op), p)
    /\ proc' = [proc EXCEPT ![p] =
                  [Idle EXCEPT !.pc = FirstPc(op), !.op = op, !.key = k, !.val = v,
                               !.ttl = ttl]]
    /\ written' = IF op = "Set" THEN [written EXCEPT ![k] = v] ELSE written
    /\ UNCHANGED <<data, lru, maxSize, currentSize, now, ret, hist, load, twin>>

\* entry, exists := c.data[key], and the branch each handler takes on it
Lookup(p) ==
    LET f == proc[p]
        exists == f.key \in DOMAIN data
        expired == exists /\ IsExpired(data[f.key], now)
    IN /\ f.pc = "lookup"
       /\ proc' = [proc EXCEPT ![p] =
            CASE f.op = "Get" ->
                   IF ~exists THEN [f EXCEPT !.pc = "return", !.ok = FALSE]
                   ELSE IF expired
                        THEN [f EXCEPT !.pc = "rm_list", !.rm = f.key,
                                       !.cont = "return", !.ok = FALSE]
                        ELSE [f EXCEPT !.pc = "touch"]
              [] f.op = "Set" ->
                   IF exists THEN [f EXCEPT !.pc = "rm_list", !.rm = f.key, !.cont = "push"]
                   ELSE [f EXCEPT !.pc = "push"]
              [] f.op = "Delete" ->
                   IF exists THEN [f EXCEPT !.pc = "rm_list", !.rm = f.key,
                                            !.cont = "return", !.ok = TRUE]
                   ELSE [f EXCEPT !.pc = "return", !.ok = FALSE]
              [] OTHER ->
                   [f EXCEPT !.pc = "return", !.ok = exists /\ ~expired]]
       /\ UNCHANGED <<data, lru, maxSize, currentSize, now, ret, hist, load, twin, mutex, written>>

\* Get on a live entry: AccessCount++, LastAccessed, MoveToFront, return Value
Touch(p) ==
    LET f == proc[p]
    IN /\ f.pc = "touch"
       /\ IF f.key \in DOMAIN data
          THEN /\ data' = [data EXCEPT ![f.key].AccessCount = @ + 1,
                                       ![f.key].LastAccessed = now]
               /\ lru' = ListMoveToFront(lru, f.key)
               /\ proc' = [proc EXCEPT ![p] = [f EXCEPT !.pc = "return", !.ok = TRUE,
                                                      !.out = data[f.key].Value]]
          ELSE /\ UNCHANGED <<data, lru>>
               /\ proc' = [proc EXCEPT ![p] = [f EXCEPT !.pc = "return", !.ok = TRUE]]
       /\ UNCHANGED <<maxSize, currentSize, now, ret, hist, load, twin, mutex, written>>

\* removeEntry, statement by statement
RmList(p) ==
    /\ proc[p].pc = "rm_list"
    /\ lru' = ListRemove(lru, proc[p].rm)
    /\ proc' = [proc EXCEPT ![p].pc = "rm_map"]
    /\ UNCHANGED <<data, maxSize, currentSize, now, ret, hist, load, twin, mutex, written>>

RmMap(p) ==
    /\ proc[p].pc = "rm_map"
    /\ data' = MapDelete(data, proc[p].rm)
    /\ proc' = [proc EXCEPT ![p].pc = "rm_size"]
    /\ UNCHANGED <<lru, maxSize, currentSize, now, ret, hist, load, twin, mutex, written>>

RmSize(p) ==
    /\ proc[p].pc = "rm_size"
    /\ currentSize' = currentSize - 1
    /\ proc' = [proc EXCEPT ![p].pc = proc[p].cont]
    /\ UNCHANGED <<data, lru, maxSize, now, ret, hist, load, twin, mutex, written>>

\* Set: PushFront, c.data[key] = entry, currentSize++, then the eviction loop
Push(p) ==
    /\ proc[p].pc = "push"
    /\ lru' = ListPushFront(lru, proc[p].key)
    /\ proc' = [proc EXCEPT ![p].pc = "set_map"]
    /\ UNCHANGED <<data, maxSize, currentSize, now, ret, hist, load, twin, mutex, written>>

SetMap(p) ==
    LET f == proc[p]
    IN /\ f.pc = "set_map"
       /\ data' = MapPut(data, f.key, NewEntry(f.key, f.val, f.ttl, now))
       /\ proc' = [proc EXCEPT ![p].pc = "set_size"]
       /\ UNCHANGED <<lru, maxSize, currentSize, now, ret, hist, load, twin, mutex, written>>

SetSize(p) ==
    /\ proc[p].pc = "set_size"
    /\ currentSize' = currentSize + 1
    /\ proc' = [proc EXCEPT ![p].pc = "evict"]
    /\ UNCHANGED <<data, lru, maxSize, now, ret, hist, load, twin, mutex, written>>

\* An eviction loop that tests the size only: with nothing left in the list
\* evictLRU does nothing and the loop comes round again.
Evict_sizeOnly(p) ==
    LET f == proc[p]
    IN /\ f.pc = "evict"
       /\ proc' = [proc EXCEPT ![p] =
                     IF currentSize > maxSize
                     THEN IF Len(lru) > 0
                          THEN [f EXCEPT !.pc = "rm_list", !.rm = ListBack(lru),
                                         !.cont = "evict"]
                          ELSE f
                     ELSE [f EXCEPT !.pc = "return", !.ok = TRUE]]
       /\ UNCHANGED <<data, lru, maxSize, currentSize, now, ret, hist, load, twin, mutex, written>>

Evict(p) ==
    LET f == proc[p]
    IN /\ f.pc = "evict"
       /\ proc' = [proc EXCEPT ![p] =
                     IF currentSize > maxSize /\ Len(lru) > 0
                     THEN [f EXCEPT !.pc = "rm_list", !.rm = ListBack(lru), !.cont = "evict"]
                     ELSE [f EXCEPT !.pc = "return", !.ok = TRUE]]
       /\ UNCHANGED <<data, lru, maxSize, currentSize, now, ret, hist, load, twin, mutex, written>>

\* Clear, statement by statement
ClearMap(p) ==
    /\ proc[p].pc = "clear_map"
    /\ data' = EmptyMap
    /\ proc' = [proc EXCEPT ![p].pc = "clear_list"]
    /\ UNCHANGED <<lru, maxSize, currentSize, now, ret, hist, load, twin, mutex, written>>

ClearList(p) ==
    /\ proc[p].pc = "clear_list"
    /\ lru' = <<>>
    /\ proc' = [proc EXCEPT ![p].pc = "clear_size"]
    /\ UNCHANGED <<data, maxSize, currentSize, now, ret, hist, load, twin, mutex, written>>

ClearSize(p) ==
    /\ proc[p].pc = "clear_size"
    /\ currentSize' = 0
    /\ proc' = [proc EXCEPT ![p] = [proc[p] EXCEPT !.pc = "return", !.ok = TRUE]]
    /\ UNCHANGED <<data, lru, maxSize, now, ret, hist, load, twin, mutex, written>>

\* Cleanup: the range loop visits the keys of the map in any order
Range(p) ==
    /\ proc[p].pc = "range"
    /\ proc' = [proc EXCEPT ![p] = [proc[p] EXCEPT !.pc = "scan", !.todo = DOMAIN data]]
    /\ UNCHANGED <<data, lru, maxSize, currentSize, now, ret, hist, load, twin, mutex, written>>

Scan(p) ==
    LET f == proc[p]
    IN /\ f.pc = "scan"
       /\ IF f.todo = {}
          THEN proc' = [proc EXCEPT ![p] = [f EXCEPT !.pc = "return", !.ok = TRUE]]
          ELSE \E k \in f.todo :
                 proc' = [proc EXCEPT ![p] =
                    IF k \in DOMAIN data /\ IsExpired(data[k], now)
                    THEN [f EXCEPT !.todo = @ \ {k}, !.pc = "rm_list", !.rm = k,
                                   !.cont = "scan_del"]
                    ELSE [f EXCEPT !.todo = @ \ {k}]]
       /\ UNCHANGED <<data, lru, maxSize, currentSize, now, ret, hist, load, twin, mutex, written>>

ScanDel(p) ==
    /\ proc[p].pc = "scan_del"
    /\ data' = MapDelete(data, proc[p].rm)
    /\ proc' = [proc EXCEPT ![p] = [proc[p] EXCEPT !.pc = "scan", !.n = @ + 1]]
    /\ UNCHANGED <<lru, maxSize, currentSize, now, ret, hist, load, twin, mutex, written>>

StatsScan(p) ==
    /\ proc[p].pc = "stats"
    /\ proc' = [proc EXCEPT ![p] = [proc[p] EXCEPT !.pc = "return", !.ok = TRUE,
                                                   !.stats = StatsOf(Cache)]]
    /\ UNCHANGED <<data, lru, maxSize, currentSize, now, ret, hist, load, twin, mutex, written>>

\* the deferred Unlock (RUnlock) as the call returns
Return(p) ==
    /\ proc[p].pc = "return"
    /\ mutex' = Unlocked(mutex, LockMode(proc[p].op), p)
    /\ proc' = [proc EXCEPT ![p] = Idle]
    /\ UNCHANGED <<data, lru, maxSize, currentSize, now, ret, hist, load, twin, written>>

\* The clock advances between any two steps.
ConcTick ==
    /\ now < ConcMaxTime
    /\ now' = now + 1
    /\ UNCHANGED <<data, lru, maxSize, currentSize, ret, hist, load, twin, conc>>

NextConc ==
    \/ \E p \in Procs, op \in {"Get", "Delete", "Exists"}, k \in Keys :
          Call(p, op, k, NilValue, NilPtr)
    \/ \E p \in Procs, k \in Keys, v \in Values, ttl \in ConcTTLs : Call(p, "Set", k, v, ttl)
    \/ \E p \in Procs, op \in {"Clear", "Cleanup", "Stats"} : Call(p, op, "", NilValue, NilPtr)
    \/ \E p \in Procs : Lookup(p)
    \/ \E p \in Procs : Touch(p)
    \/ \E p \in Procs : RmList(p)
    \/ \E p \in Procs : RmMap(p)
    \/ \E p \in Procs : RmSize(p)
    \/ \E p \in Procs : Push(p)
    \/ \E p \in Procs : SetMap(p)
    \/ \E p \in Procs : SetSize(p)
    \/ \E p \in Procs : Evict(p)
    \/ \E p \in Procs : ClearMap(p)
    \/ \E p \in Procs : ClearList(p)
    \/ \E p \in Procs : ClearSize(p)
    \/ \E p \in Procs : Range(p)
    \/ \E p \in Procs : Scan(p)
    \/ \E p \in Procs : ScanDel(p)
    \/ \E p \in Procs : StatsScan(p)
    \/ \E p \in Procs : Return(p)
    \/ ConcTick

SpecConc == InitConc /\ [][NextConc]_vars

\* ------------------------------------------------ reaped and unreaped runs
\* Two caches built alike receive the same Set, Get, Delete and Exists calls
\* at the same instants; Cleanup runs on the first only.  ret holds the last
\* result of the first cache, twin.ok and twin.val that of the second.
InitTwin ==
    /\ \E n \in TwinCapacities :
          /\ data = NewCache(n).data
          /\ lru = NewCache(n).lru
          /\ maxSize = NewCache(n).maxSize
          /\ currentSize = NewCache(n).currentSize
          /\ twin = [c |-> NewCache(n), ok |-> TRUE, val |-> NilValue]
    /\ now = 0
    /\ ret = Ret("NewCache", "", TRUE, NilValue, 0, NoStats, NewCache(0), NewCache(0))
    /\ hist = <<>>
    /\ load = NoLoad
    /\ ConcInit

TwinGet(k) ==
    /\ k \in DOMAIN data => data[k].AccessCount < MaxAccess
    /\ k \in DOMAIN twin.c.data => twin.c.data[k].AccessCount < MaxAccess
    /\ LET r == GetOp(Cache, k, now)
           s == GetOp(twin.c, k, now)
       IN /\ Install(r.c)
          /\ ret' = Ret("Get", k, r.ok, r.val, 0, NoStats, Cache, r.c)
          /\ twin' = [c |-> s.c, ok |-> s.ok, val |-> s.val]
    /\ UNCHANGED <<now, hist, load, conc>>

TwinSet(k, v, ttl) ==
    /\ LET c2 == SetOp(Cache, k, v, ttl, now)
       IN /\ Install(c2)
          /\ ret' = Ret("Set", k, TRUE, NilValue, 0, NoStats, Cache, c2)
    /\ twin' = [c |-> SetOp(twin.c, k, v, ttl, now), ok |-> TRUE, val |-> NilValue]
    /\ UNCHANGED <<now, hist, load, conc>>

TwinDelete(k) ==
    /\ LET r == DeleteOp(Cache, k)
           s == DeleteOp(twin.c, k)
       IN /\ Install(r.c)
          /\ ret' = Ret("Delete", k, r.ok, NilValue, 0, NoStats, Cache, r.c)
          /\ twin' = [c |-> s.c, ok |-> s.ok, val |-> NilValue]
    /\ UNCHANGED <<now, hist, load, conc>>

TwinExists(k) ==
    /\ LET r == ExistsOp(Cache, k, now)
           s == ExistsOp(twin.c, k, now)
       IN /\ Install(r.c)
          /\ ret' = Ret("Exists", k, r.ok, NilValue, 0, NoStats, Cache, r.c)
          /\ twin' = [c |-> s.c, ok |-> s.ok, val |-> NilValue]
    /\ UNCHANGED <<now, hist, load, conc>>

\* Cleanup on the first cache; the second is left as it is.
TwinCleanup ==
    /\ LET r == CleanupOp(Cache, now)
       IN /\ Install(r.c)
          /\ ret' = Ret("Cleanup", "", TRUE, NilValue, r.n, NoStats, Cache, r.c)
    /\ UNCHANGED <<now, hist, load, conc, twin>>

TwinTick ==
    /\ now < ConcMaxTime
    /\ now' = now + 1
    /\ UNCHANGED <<data, lru, maxSize, currentSize, ret, hist, load, conc, twin>>

NextTwin ==
    \/ \E k \in TwinKeys : TwinGet(k)
    \/ \E k \in TwinKeys, ttl \in ConcTTLs : TwinSet(k, LRUValue, ttl)
    \/ \E k \in TwinKeys : TwinDelete(k)
    \/ \E k \in TwinKeys : TwinExists(k)
    \/ TwinCleanup
    \/ TwinTick

SpecTwin == InitTwin /\ [][NextTwin]_vars

\* ------------------------------------------------------ the cleanup routine
\* StartCleanupRoutine has been called: its goroutine calls Cleanup each time
\* the ticker fires, between the calls of the clients.
InitReaper ==
    /\ \E n \in ConcCapacities :
          /\ data = NewCache(n).data
          /\ lru = NewCache(n).lru
          /\ maxSize = NewCache(n).maxSize
          /\ currentSize = NewCache(n).currentSize
    /\ now = 0
    /\ ret = Ret("StartCleanupRoutine", "", TRUE, NilValue, 0, NoStats, NewCache(0), NewCache(0))
    /\ hist = <<>>
    /\ load = NoLoad
    /\ twin = NoTwin
    /\ ConcInit

\* one firing of the ticker: the body of the goroutine's loop
StartCleanupRoutine == Cleanup

NextReaper ==
    \/ \E k \in Keys : Get(k)
    \/ \E k \in Keys, ttl \in ConcTTLs : Set(k, LRUValue, ttl)
    \/ \E k \in Keys : Delete(k)
    \/ \E k \in Keys : Exists(k)
    \/ StartCleanupRoutine
    \/ ConcTick

\* The ticker keeps firing and the goroutine is scheduled.
ReaperFairness == WF_vars(StartCleanupRoutine)

SpecReaper == InitReaper /\ [][NextReaper]_vars /\ ReaperFairness

\* ------------------------------------------------- three keys, atomic calls
\* The calls of Spec on a cache that can hold three entries, so that a call
\* on one entry leaves two others whose order can be compared.
InitFrame ==
    /\ \E n \in FrameCapacities :
          /\ data = NewCache(n).data
          /\ lru = NewCache(n).lru
          /\ maxSize = NewCache(n).maxSize
          /\ currentSize = NewCache(n).currentSize
    /\ now = 0
    /\ ret = Ret("NewCache", "", TRUE, NilValue, 0, NoStats, NewCache(0), NewCache(0))
    /\ hist = <<>>
    /\ load = NoLoad
    /\ twin = NoTwin
    /\ ConcInit

NextFrame ==
    \/ \E k \in FrameKeys : Get(k)
    \/ \E k \in FrameKeys, ttl \in ConcTTLs : Set(k, LRUValue, ttl)
    \/ \E k \in FrameKeys : Delete(k)
    \/ Cleanup
    \/ ConcTick

SpecFrame == InitFrame /\ [][NextFrame]_vars

\* ------------------------------------------------- TTLs of either sign
\* The calls that test or set an expiry, with TTLs below zero, zero and above.
InitExpiry ==
    /\ \E n \in ConcCapacities :
          /\ data = NewCache(n).data
          /\ lru = NewCache(n).lru
          /\ maxSize = NewCache(n).maxSize
          /\ currentSize = NewCache(n).currentSize
    /\ now = 0
    /\ ret = Ret("NewCache", "", TRUE, NilValue, 0, NoStats, NewCache(0), NewCache(0))
    /\ hist = <<>>
    /\ load = NoLoad
    /\ twin = NoTwin
    /\ ConcInit

NextExpiry ==
    \/ \E k \in Keys : Get(k)
    \/ \E k \in Keys, ttl \in ExpiryTTLs : Set(k, LRUValue, ttl)
    \/ \E k \in Keys : Exists(k)
    \/ Cleanup
    \/ Tick

SpecExpiry == InitExpiry /\ [][NextExpiry]_vars

\* ------------------------------------------------------ the end of LoadConfig
\* LoadConfig from the point where flags, file and environment have been
\* applied to config (pc "validate"), or where loadFromFile has just returned
\* an error (pc "file_error"), to its return.
Configs ==
    [Server : [Host : {"0.0.0.0"}, Port : Ports, HTTPPort : HTTPPorts],
     Cache : [MaxMemory : MaxMemories, ShardCount : ShardCounts],
     Cluster : [Enabled : BOOLEAN, Seeds : SeedLists],
     Security : [EnableAuth : BOOLEAN, JWTSecret : JWTSecrets, JWTExpiry : JWTExpiries]]

InitConfig ==
    /\ data = NewCache(1).data
    /\ lru = NewCache(1).lru
    /\ maxSize = NewCache(1).maxSize
    /\ currentSize = NewCache(1).currentSize
    /\ now = 0
    /\ ret = Ret("NewCache", "", TRUE, NilValue, 0, NoStats, NewCache(0), NewCache(0))
    /\ hist = <<>>
    /\ twin = NoTwin
    /\ ConcInit
    /\ \E c \in Configs, at \in {"file_error", "validate"} :
          load = [config |-> c, pc |-> at, err |-> NoError, out |-> NilPtr]

cacheVars == <<data, lru, maxSize, currentSize, now, ret, hist, twin, conc>>

\* if err := loadFromFile(...); err != nil: return nil and the wrapped error
FileError ==
    /\ load.pc = "file_error"
    /\ load' = [load EXCEPT !.pc = "done", !.err = "failed to load config from file",
                            !.out = NilPtr]
    /\ UNCHANGED cacheVars

\* err := config.Validate()
ValidateConfig ==
    /\ load.pc = "validate"
    /\ load' = [load EXCEPT !.pc = "return", !.err = Validate(load.config)]
    /\ UNCHANGED cacheVars

\* return nil and the wrapped error if err != nil, else return config, nil
ReturnConfig ==
    /\ load.pc = "return"
    /\ load' = IF load.err # NoError
               THEN [load EXCEPT !.pc = "done", !.err = "invalid configuration", !.out = NilPtr]
               ELSE [load EXCEPT !.pc = "done", !.out = <<load.config>>]
    /\ UNCHANGED cacheVars

NextConfig ==
    \/ FileError
    \/ ValidateConfig
    \/ ReturnConfig

SpecConfig == InitConfig /\ [][NextConfig]_vars

\* ------------------------------------------------------ the whole LoadConfig
\* A command line, a decoded file and the like are functions from the names
\* given to their values; a name that is absent is not in the domain.
Given(m, name, otherwise) == IF name \in DOMAIN m THEN m[name] ELSE otherwise

\* flag.Parse on the flags LoadConfig declares: a flag on the command line
\* (args, as the flag package accepted it) replaces the default it was
\* declared with, which is the field's value in config.
ParseFlags(c, args) ==
    [c EXCEPT !.Server.Host = Given(args, "host", @),
              !.Server.Port = Given(args, "port", @),
              !.Server.HTTPPort = Given(args, "http-port", @),
              !.Cache.MaxMemory = Given(args, "max-memory", @),
              !.Cluster.Enabled = Given(args, "cluster", @)]

\* the value of the flag -config, "" by default
ConfigFile(args) == Given(args, "config", <<>>)

\* json.Unmarshal, toml.Unmarshal, yaml.Unmarshal into a Config that holds
\* values already: a key of the document replaces its field, a field
\* without a key stays.
Unmarshal(c, doc) ==
    [c EXCEPT !.Server.Host = Given(doc, "server.host", @),
              !.Server.Port = Given(doc, "server.port", @),
              !.Server.HTTPPort = Given(doc, "server.http_port", @),
              !.Cache.MaxMemory = Given(doc, "cache.max_memory", @),
              !.Cache.ShardCount = Given(doc, "cache.shard_count", @),
              !.Cluster.Enabled = Given(doc, "cluster.enabled", @),
              !.Cluster.Seeds = Given(doc, "cluster.seeds", @),
              !.Security.EnableAuth = Given(doc, "security.enable_auth", @),
              !.Security.JWTSecret = Given(doc, "security.jwt_secret", @),
              !.Security.JWTExpiry = Given(doc, "security.jwt_expiry", @)]

\* strings.HasSuffix
HasSuffix(s, suffix) ==
    /\ Len(s) >= Len(suffix)
    /\ SubSeq(s, Len(s) - Len(suffix) + 1, Len(s)) = suffix

\* loadFromFile: file is what the file system holds at filename, whether it
\* can be read and the document its bytes decode to (NilPtr if they do not).
loadFromFile(c, filename, file) ==
    IF ~file.readable THEN [config |-> c, err |-> "no such file or directory"]
    ELSE IF \/ HasSuffix(filename, <<".", "j", "s", "o", "n">>)
            \/ HasSuffix(filename, <<".", "t", "o", "m", "l">>)
            \/ HasSuffix(filename, <<".", "y", "a", "m", "l">>)
            \/ HasSuffix(filename, <<".", "y", "m", "l">>)
    THEN IF file.doc = NilPtr
         THEN [config |-> c, err |-> "cannot unmarshal"]
         ELSE [config |-> Unmarshal(c, file.doc[1]), err |-> NoError]
    ELSE [config |-> c, err |-> "unsupported config file format"]

\* loadFromEnv in which a variable overrides only the value DefaultConfig gave.
loadFromEnv_defaultsOnly(c, env) ==
    LET port == Atoi(env.CACHE_PORT)
        httpPort == Atoi(env.CACHE_HTTP_PORT)
        mem == ParseInt(env.CACHE_MAX_MEMORY)
        cluster == ParseBool(env.CACHE_CLUSTER_ENABLED)
        auth == ParseBool(env.CACHE_AUTH_ENABLED)
        d == DefaultConfig
    IN [c EXCEPT
          !.Server.Host = IF env.CACHE_HOST # "" /\ @ = d.Server.Host
                          THEN env.CACHE_HOST ELSE @,
          !.Server.Port = IF env.CACHE_PORT # <<>> /\ port.err = NoError
                             /\ @ = d.Server.Port
                          THEN port.val ELSE @,
          !.Server.HTTPPort = IF env.CACHE_HTTP_PORT # <<>> /\ httpPort.err = NoError
                                 /\ @ = d.Server.HTTPPort
                              THEN httpPort.val ELSE @,
          !.Cache.MaxMemory = IF env.CACHE_MAX_MEMORY # <<>> /\ mem.err = NoError
                                 /\ @ = d.Cache.MaxMemory
                              THEN mem.val ELSE @,
          !.Cluster.Enabled = IF env.CACHE_CLUSTER_ENABLED # <<>> /\ cluster.err = NoError
                                 /\ @ = d.Cluster.Enabled
                              THEN cluster.val ELSE @,
          !.Cluster.Seeds = IF env.CACHE_CLUSTER_SEEDS # <<>> /\ @ = d.Cluster.Seeds
                            THEN Split(env.CACHE_CLUSTER_SEEDS, ",") ELSE @,
          !.Security.EnableAuth = IF env.CACHE_AUTH_ENABLED # <<>> /\ auth.err = NoError
                                     /\ @ = d.Security.EnableAuth
                                  THEN auth.val ELSE @,
          !.Security.JWTSecret = IF env.CACHE_JWT_SECRET # "" /\ @ = d.Security.JWTSecret
                                 THEN env.CACHE_JWT_SECRET ELSE @]

\* loadFromEnv: env is what os.Getenv returns for each name it asks for, the
\* empty string for a variable that is not set.
loadFromEnv(c, env) ==
    LET port == Atoi(env.CACHE_PORT)
        httpPort == Atoi(env.CACHE_HTTP_PORT)
        mem == ParseInt(env.CACHE_MAX_MEMORY)
        cluster == ParseBool(env.CACHE_CLUSTER_ENABLED)
        auth == ParseBool(env.CACHE_AUTH_ENABLED)
    IN [c EXCEPT
          !.Server.Host = IF env.CACHE_HOST # "" THEN env.CACHE_HOST ELSE @,
          !.Server.Port = IF env.CACHE_PORT # <<>> /\ port.err = NoError
                          THEN port.val ELSE @,
          !.Server.HTTPPort = IF env.CACHE_HTTP_PORT # <<>> /\ httpPort.err = NoError
                              THEN httpPort.val ELSE @,
          !.Cache.MaxMemory = IF env.CACHE_MAX_MEMORY # <<>> /\ mem.err = NoError
                              THEN mem.val ELSE @,
          !.Cluster.Enabled = IF env.CACHE_CLUSTER_ENABLED # <<>> /\ cluster.err = NoError
                              THEN cluster.val ELSE @,
          !.Cluster.Seeds = IF env.CACHE_CLUSTER_SEEDS # <<>>
                            THEN Split(env.CACHE_CLUSTER_SEEDS, ",") ELSE @,
          !.Security.EnableAuth = IF env.CACHE_AUTH_ENABLED # <<>> /\ auth.err = NoError
                                  THEN auth.val ELSE @,
          !.Security.JWTSecret = IF env.CACHE_JWT_SECRET # "" THEN env.CACHE_JWT_SECRET
                                 ELSE @]

\* inputs: the command lines
JSONFile == <<"c", ".", "j", "s", "o", "n">>
INIFile == <<"c", ".", "i", "n", "i">>

AllFlags ==
    ("host" :> "flag.host") @@ ("port" :> 7000) @@ ("http-port" :> 9000)
    @@ ("max-memory" :> 2 * 1024 * 1024) @@ ("cluster" :> TRUE)

FlagSets == {<<>>, ("port" :> 7000), AllFlags}

\* inputs: the document of a config file that names two fields, and of one
\* that names every modelled field
PartDoc == ("server.port" :> 7001) @@ ("cluster.seeds" :> << <<"s", "1">> >>)

FullDoc ==
    ("server.host" :> "file.host") @@ ("server.port" :> 7001)
    @@ ("server.http_port" :> 9001) @@ ("cache.max_memory" :> 4 * 1024 * 1024)
    @@ ("cache.shard_count" :> 4) @@ ("cluster.enabled" :> TRUE)
    @@ ("cluster.seeds" :> << <<"s", "1">>, <<"s", "2">> >>)
    @@ ("security.enable_auth" :> TRUE) @@ ("security.jwt_secret" :> "file.secret")
    @@ ("security.jwt_expiry" :> 3600)

NoFile == [readable |-> FALSE, doc |-> NilPtr]

\* inputs: the flag -config (absent, or the name given) with the file there
ConfigSources ==
    {[flag |-> <<>>, file |-> NoFile],
     [flag |-> ("config" :> JSONFile), file |-> NoFile],
     [flag |-> ("config" :> JSONFile), file |-> [readable |-> TRUE, doc |-> NilPtr]],
     [flag |-> ("config" :> INIFile), file |-> [readable |-> TRUE, doc |-> <<FullDoc>>]],
     [flag |-> ("config" :> JSONFile), file |-> [readable |-> TRUE, doc |-> <<PartDoc>>]],
     [flag |-> ("config" :> JSONFile), file |-> [readable |-> TRUE, doc |-> <<FullDoc>>]]}

\* inputs: the environment; <<>> and "" are a variable empty or not set
Environments ==
    [CACHE_HOST : {"", "env.host"},
     CACHE_PORT : {<<>>, <<"a", "b", "c">>, <<"7", "0", "0", "2">>,
                   <<"9", "9", "9", "9", "9", "9", "9", "9", "9", "9",
                     "9", "9", "9", "9", "9", "9", "9", "9", "9", "9">>},
     CACHE_HTTP_PORT : {<<>>, <<"+", "9", "0", "0", "2">>},
     CACHE_MAX_MEMORY : {<<>>, <<"8", "3", "8", "8", "6", "0", "8">>},
     CACHE_CLUSTER_ENABLED : {<<>>, <<"y", "e", "s">>, <<"F">>},
     CACHE_CLUSTER_SEEDS : {<<>>, <<"a", ",", "b">>},
     CACHE_AUTH_ENABLED : {<<>>, <<"o", "n">>, <<"1">>},
     CACHE_JWT_SECRET : {"", "env.secret"}]

\* config := DefaultConfig(), before flag.Parse
InitLoad ==
    /\ data = NewCache(1).data
    /\ lru = NewCache(1).lru
    /\ maxSize = NewCache(1).maxSize
    /\ currentSize = NewCache(1).currentSize
    /\ now = 0
    /\ ret = Ret("NewCache", "", TRUE, NilValue, 0, NoStats, NewCache(0), NewCache(0))
    /\ hist = <<>>
    /\ twin = NoTwin
    /\ ConcInit
    /\ \E flags \in FlagSets, src \in ConfigSources, env \in Environments :
          load = [config |-> DefaultConfig, pc |-> "flags", err |-> NoError,
                  out |-> NilPtr, args |-> src.flag @@ flags, file |-> src.file,
                  env |-> env]

\* flag.Parse()
FlagParse ==
    /\ load.pc = "flags"
    /\ load' = [load EXCEPT !.pc = "file", !.config = ParseFlags(load.config, load.args)]
    /\ UNCHANGED cacheVars

\* if configFile != "": loadFromFile(config, configFile)
LoadFromFile ==
    /\ load.pc = "file"
    /\ load' =
          IF ConfigFile(load.args) = <<>> THEN [load EXCEPT !.pc = "env"]
          ELSE LET r == loadFromFile(load.config, ConfigFile(load.args), load.file)
               IN [load EXCEPT !.config = r.config,
                               !.pc = IF r.err # NoError THEN "file_error" ELSE "env"]
    /\ UNCHANGED cacheVars

\* loadFromEnv(config)
LoadFromEnv ==
    /\ load.pc = "env"
    /\ load' = [load EXCEPT !.pc = "validate", !.config = loadFromEnv(load.config, load.env)]
    /\ UNCHANGED cacheVars

NextLoad ==
    \/ FlagParse
    \/ LoadFromFile
    \/ FileError
    \/ LoadFromEnv
    \/ ValidateConfig
    \/ ReturnConfig

SpecLoad == InitLoad /\ [][NextLoad]_vars

\* ------------------------------------------------- calls waiting for the mutex
\* A call has started when its goroutine reaches mutex.Lock or RLock (pc
\* "wait"); it goes on when the mutex admits it.  Capacities include zero and
\* a negative one, which NewCache accepts.
InitLive ==
    /\ \E n \in LiveCapacities :
          /\ data = NewCache(n).data
          /\ lru = NewCache(n).lru
          /\ maxSize = NewCache(n).maxSize
          /\ currentSize = NewCache(n).currentSize
    /\ now = 0
    /\ ret = Ret("NewCache", "", TRUE, NilValue, 0, NoStats, NewCache(0), NewCache(0))
    /\ hist = <<>>
    /\ load = NoLoad
    /\ twin = NoTwin
    /\ ConcInit

\* p calls op and reaches the Lock or RLock at its top.
Begin(p, op, k, v, ttl) ==
    /\ proc[p].pc = "idle"
    /\ (op = "Get" /\ k \in DOMAIN data) => data[k].AccessCount < MaxAccess
    /\ proc' = [proc EXCEPT ![p] =
                  [Idle EXCEPT !.pc = "wait", !.op = op, !.key = k, !.val = v, !.ttl = ttl]]
    /\ UNCHANGED <<data, lru, maxSize, currentSize, now, ret, hist, load, twin, mutex, written>>

\* sync.RWMutex: a blocked Lock keeps new readers out.
WriterWaiting == \E q \in Procs : proc[q].pc = "wait" /\ LockMode(proc[q].op) = "W"

\* The mutex admits p.
Acquire(p) ==
    LET f == proc[p]
    IN /\ f.pc = "wait"
       /\ CanLock(mutex, LockMode(f.op))
       /\ LockMode(f.op) = "R" => ~WriterWaiting
       /\ mutex' = Locked(mutex, LockMode(f.op), p)
       /\ proc' = [proc EXCEPT ![p].pc = FirstPc(f.op)]
       /\ written' = IF f.op = "Set" THEN [written EXCEPT ![f.key] = f.val] ELSE written
       /\ UNCHANGED <<data, lru, maxSize, currentSize, now, ret, hist, load, twin>>

\* Any statement of the call p is in, once p holds the mutex.
Step(p) ==
    \/ Lookup(p) \/ Touch(p) \/ RmList(p) \/ RmMap(p) \/ RmSize(p)
    \/ Push(p) \/ SetMap(p) \/ SetSize(p) \/ Evict(p)
    \/ ClearMap(p) \/ ClearList(p) \/ ClearSize(p)
    \/ Range(p) \/ Scan(p) \/ ScanDel(p) \/ StatsScan(p) \/ Return(p)

NextLive ==
    \/ \E p \in Procs, op \in {"Get", "Delete", "Exists"}, k \in LiveKeys :
          Begin(p, op, k, NilValue, NilPtr)
    \/ \E p \in Procs, k \in LiveKeys, ttl \in ConcTTLs : Begin(p, "Set", k, LRUValue, ttl)
    \/ \E p \in Procs, op \in {"Clear", "Cleanup", "Stats"} : Begin(p, op, "", NilValue, NilPtr)
    \/ \E p \in Procs : Acquire(p)
    \/ \E p \in Procs : Lookup(p)
    \/ \E p \in Procs : Touch(p)
    \/ \E p \in Procs : RmList(p)
    \/ \E p \in Procs : RmMap(p)
    \/ \E p \in Procs : RmSize(p)
    \/ \E p \in Procs : Push(p)
    \/ \E p \in Procs : SetMap(p)
    \/ \E p \in Procs : SetSize(p)
    \/ \E p \in Procs : Evict(p)
    \/ \E p \in Procs : ClearMap(p)
    \/ \E p \in Procs : ClearList(p)
    \/ \E p \in Procs : ClearSize(p)
    \/ \E p \in Procs : Range(p)
    \/ \E p \in Procs : Scan(p)
    \/ \E p \in Procs : ScanDel(p)
    \/ \E p \in Procs : StatsScan(p)
    \/ \E p \in Procs : Return(p)
    \/ ConcTick

\* The scheduler runs every goroutine that can take a step, and the mutex is
\* fair: a goroutine that could be admitted again and again is admitted.
LiveFairness == \A p \in Procs : WF_vars(Step(p)) /\ SF_vars(Acquire(p))

SpecLive == InitLive /\ [][NextLive]_vars /\ LiveFairness

\* ----------------------------------------------------------------- claims
ListKeys(l) == {l[i] : i \in 1..Len(l)}

\* C1: in every reachable state the keys of the index are exactly the keys
\* held by the nodes of the recency list, no key has two nodes, every entry
\* is filed under its own key, and currentSize equals both len(data) and
\* lru.Len().
C1_IndexMatchesList ==
    /\ ListKeys(lru) = DOMAIN data
    /\ \A i, j \in 1..Len(lru) : lru[i] = lru[j] => i = j
    /\ \A k \in DOMAIN data : data[k].Key = k
    /\ currentSize = Cardinality(DOMAIN data)
    /\ currentSize = Len(lru)

\* a Set has just evicted one key and kept another
C1_Witness ==
    /\ ret.op = "Set" /\ ret.removed # {}
    /\ currentSize = 1 /\ Len(lru) = 1 /\ DOMAIN data = {ret.key}

\* C2 (as claimed): for every capacity NewCache accepts, when a Set call has
\* returned the cache holds at most maxSize entries.
C2_SetWithinCapacity == ret.op = "Set" => currentSize <= maxSize

\* C6: a Get on a resident entry whose ExpiresAt has passed reports not-found
\* and takes the entry out of the index and out of the recency list, whether
\* or not Cleanup has run; a Get that reports found read an entry that was
\* not expired.
C6_GetNeverStale ==
    [][\A k \in Keys :
          (ret'.op = "Get" /\ ret'.key = k /\ Get(k)) =>
            /\ (k \in DOMAIN data /\ IsExpired(data[k], now)) =>
                   /\ ret'.ok = FALSE /\ ret'.val = NilValue
                   /\ k \notin DOMAIN data' /\ k \notin ListKeys(lru')
                   /\ currentSize' = currentSize - 1
            /\ ret'.ok => (k \in DOMAIN data /\ ~IsExpired(data[k], now))]_vars

\* a Get has just met an expired entry that no Cleanup had removed
C6_Witness ==
    /\ ret.op = "Get" /\ ~ret.ok
    /\ ret.old # <<>> /\ ret.old[1] # NilPtr /\ now > ret.old[1][1]
    /\ ret.removed = {ret.key}

\* C7: Cleanup removes every entry expired at the time of the call and only
\* counts what it removed: its result is the number of keys gone from the
\* index, no expired entry is resident afterwards, and total_keys of Stats
\* is lower by exactly the result.
C7_CleanupReaps ==
    [][(ret'.op = "Cleanup" /\ Cleanup) =>
          /\ \A k \in DOMAIN data : IsExpired(data[k], now) => k \notin DOMAIN data'
          /\ DOMAIN data' \subseteq DOMAIN data
          /\ ret'.n = Cardinality((DOMAIN data) \ (DOMAIN data'))
          /\ \A k \in DOMAIN data' : ~IsExpired(data'[k], now')
          /\ StatsOf(Cache').total_keys = StatsOf(Cache).total_keys - ret'.n]_vars

\* a Cleanup has just removed two expired entries at once
C7_Witness == ret.op = "Cleanup" /\ ret.n = 2 /\ Cardinality(ret.removed) = 2

\* C8: Delete of a key that is not in the index returns false and changes
\* nothing; Delete of a resident key returns true, and a Delete of the same
\* key straight after a successful one returns false.
C8_DeleteIdempotent ==
    [][\A k \in Keys :
          (ret'.op = "Delete" /\ ret'.key = k /\ Delete(k)) =>
            /\ k \notin DOMAIN data =>
                   (ret'.ok = FALSE /\ UNCHANGED <<data, lru, currentSize, maxSize>>)
            /\ k \in DOMAIN data => (ret'.ok = TRUE /\ DeleteOp(Cache', k).ok = FALSE)
            /\ (ret.op = "Delete" /\ ret.key = k /\ ret.ok) => ret'.ok = FALSE]_vars

\* a Delete has just missed while another key is resident
C8_Witness == ret.op = "Delete" /\ ~ret.ok /\ ret.old = <<>> /\ currentSize = 1

\* an entry without ExpiresAt is found by Get at the present and at every
\* later clock value, with its stored value
NoTTLAlwaysFound ==
    \A k \in DOMAIN data :
        data[k].ExpiresAt = NilPtr =>
            \A t \in now..(MaxTime + 1) :
                LET r == GetOp(Cache, k, t)
                IN r.ok /\ r.val = data[k].Value

\* C9: a Set with no TTL leaves its entry without ExpiresAt, whatever entry
\* it replaced; an entry without ExpiresAt is found by Get at any time, with
\* its stored value; and such an entry keeps its value and stays resident
\* through every step that is no Set, Delete or Clear.
C9_OverwriteResetsTTL ==
    /\ []NoTTLAlwaysFound
    /\ [][/\ \A k \in Keys, v \in Values :
                (ret'.op = "Set" /\ ret'.key = k /\ k \in DOMAIN data'
                    /\ Set(k, v, NilPtr)) =>
                    (data'[k].ExpiresAt = NilPtr /\ data'[k].Value = v)
          /\ \A k \in DOMAIN data :
                data[k].ExpiresAt = NilPtr =>
                  /\ (ret'.op = "Get" /\ ret'.key = k /\ Get(k)) =>
                        (ret'.ok /\ ret'.val = data[k].Value)
                  /\ ret'.op \notin {"Set", "Delete", "Clear"} =>
                        /\ k \in DOMAIN data'
                        /\ data'[k].Value = data[k].Value
                        /\ data'[k].ExpiresAt = NilPtr]_vars

\* a Set without TTL replaced an entry whose TTL has since passed
C9_Witness ==
    /\ ret.op = "Set" /\ ret.old # <<>> /\ ret.old[1] # NilPtr /\ now > ret.old[1][1]
    /\ ret.key \in DOMAIN data /\ data[ret.key].ExpiresAt = NilPtr
    /\ GetOp(Cache, ret.key, now).ok

\* C10: Exists changes nothing: the index with every field of every entry,
\* the recency order and currentSize are the same after the call, for an
\* absent, a live and an expired key alike.
C10_ExistsReadOnly ==
    [][\A k \in Keys :
          (ret'.op = "Exists" /\ ret'.key = k /\ Exists(k)) =>
              UNCHANGED <<data, lru, currentSize, maxSize>>]_vars

\* an Exists has just reported an expired entry absent and left it resident
C10_Witness ==
    /\ ret.op = "Exists" /\ ~ret.ok
    /\ ret.key \in DOMAIN data /\ IsExpired(data[ret.key], now)

\* the history is Set calls on pairwise distinct keys, one more than capacity
InsertsOnly ==
    /\ Len(hist) = maxSize + 1
    /\ \A i \in 1..Len(hist) : hist[i][1] = "Set"
    /\ \A i, j \in 1..Len(hist) : hist[i][2] = hist[j][2] => i = j

\* C4: on a fresh cache of capacity N >= 1, after Set on N+1 distinct keys
\* and no Get, the first-inserted key is gone and it is the only one: the
\* other N keys are resident, and the last Set is the call that evicted it.
C4_EvictsFirstInserted ==
    InsertsOnly =>
        /\ hist[1][2] \notin DOMAIN data
        /\ DOMAIN data = {hist[i][2] : i \in 2..Len(hist)}
        /\ ret.removed = {hist[1][2]}

\* capacity 3 and four distinct keys set
C4_Witness == InsertsOnly /\ maxSize = 3 /\ currentSize = 3

\* the history is Set(a), Set(b), Set(c), Get(a), Set(d) on distinct keys
PromotionScript ==
    /\ Len(hist) = 5
    /\ \A i \in {1, 2, 3, 5} : hist[i][1] = "Set"
    /\ hist[4][1] = "Get" /\ hist[4][2] = hist[1][2]
    /\ \A i, j \in {1, 2, 3, 5} : hist[i][2] = hist[j][2] => i = j

\* C5 (as claimed): with capacity 2, after Set(A), Set(B), Set(C), Get(A),
\* Set(D), B has been evicted and A is resident.
C5_ReadProtectsAtTwo ==
    (PromotionScript /\ maxSize = 2) =>
        (hist[2][2] \notin DOMAIN data /\ hist[1][2] \in DOMAIN data)

\* C5 (amended): after Set(A), Set(B), Set(C), Get(A), Set(D), with
\* capacity 3 the Get finds A and protects it: Set(D) evicts B, and A, C and
\* D are resident.  With capacity 2, A was already evicted by Set(C): the
\* Get reports not-found, Set(D) evicts B, and C and D are resident.
C5_ReadProtects ==
    PromotionScript =>
        /\ maxSize = 3 =>
              /\ hist[4][3]
              /\ ret.removed = {hist[2][2]}
              /\ DOMAIN data = {hist[1][2], hist[3][2], hist[5][2]}
        /\ maxSize = 2 =>
              /\ ~hist[4][3]
              /\ ret.removed = {hist[2][2]}
              /\ DOMAIN data = {hist[3][2], hist[5][2]}

\* the script has run on a cache of capacity 3 and A is still resident
C5_Witness == PromotionScript /\ maxSize = 3 /\ hist[1][2] \in DOMAIN data /\ hist[4][3]

\* p has just taken the mutex and is about to read the cache
Observes(p) == proc[p].pc \in {"lookup", "clear_map", "range", "stats"}

\* C3: under every interleaving of the concurrent callers, a caller that has
\* just taken the mutex sees the index and the recency list agree (same keys,
\* same size, currentSize equal to both) and every resident value is the one
\* written by the latest Set on its key in lock order (a Set that has just
\* taken the mutex still sees its predecessor's value); a Get that reports
\* found returns that value; and a Set on a cache of capacity >= 1 returns
\* with its own value stored at the front of the recency list.
C3_AtomicUnderLock ==
    \A p \in Procs :
        /\ (Observes(p) \/ (mutex.w = "" /\ mutex.r = {})) =>
              /\ ListKeys(lru) = DOMAIN data
              /\ Cardinality(DOMAIN data) = Len(lru)
              /\ currentSize = Len(lru)
              /\ \A k \in DOMAIN data :
                    (proc[p].op = "Set" /\ proc[p].key = k) \/ data[k].Value = written[k]
        /\ (proc[p].pc = "return" /\ proc[p].op = "Get" /\ proc[p].ok) =>
              proc[p].out = written[proc[p].key]
        /\ (proc[p].pc = "return" /\ proc[p].op = "Set" /\ maxSize >= 1) =>
              /\ proc[p].key \in DOMAIN data
              /\ data[proc[p].key].Value = proc[p].val
              /\ lru[1] = proc[p].key

\* a Get is returning the value of an entry that was overwritten and read
\* before, while the other key is resident too
C3_Witness ==
    \E p \in Procs :
        /\ proc[p].pc = "return" /\ proc[p].op = "Get" /\ proc[p].ok
        /\ proc[p].out = <<2, 3>> /\ written[proc[p].key] = <<2, 3>>
        /\ data[proc[p].key].AccessCount = 2
        /\ currentSize = 2 /\ now = 1

\* ---------------------------------------------------------------- C11
\* C11: at every instant Exists(k) answers true exactly when k is in the map
\* and its expiry has not passed, which is exactly when Get(k) called at the
\* same instant would find it; for a key that is expired but still in the map
\* it answers false.
C11_ExistsMatchesGet ==
    \A k \in Keys :
        LET live == k \in DOMAIN data /\ ~IsExpired(data[k], now)
        IN /\ ExistsOp(Cache, k, now).ok = live
           /\ ExistsOp(Cache, k, now).ok = GetOp(Cache, k, now).ok
           /\ (k \in DOMAIN data /\ IsExpired(data[k], now))
                  => ~ExistsOp(Cache, k, now).ok

\* Exists has just answered true for an entry that carries a TTL not yet
\* passed, while the other key sits expired in the map and reads as absent.
C11_Witness ==
    /\ ret.op = "Exists" /\ ret.ok
    /\ ret.key \in DOMAIN data
    /\ data[ret.key].ExpiresAt # NilPtr
    /\ ~IsExpired(data[ret.key], now)
    /\ \E k \in DOMAIN data :
          k # ret.key /\ IsExpired(data[k], now) /\ ~ExistsOp(Cache, k, now).ok

\* ---------------------------------------------------------------- C12
\* C12: Delete of a key whose entry has expired but is still in the map
\* returns true and takes the entry out of both the map and the list.
C12_DeleteIgnoresExpiry ==
    [][\A k \in Keys :
          (/\ ret'.op = "Delete" /\ ret'.key = k
           /\ k \in DOMAIN data
           /\ IsExpired(data[k], now)
           /\ Delete(k))
              => /\ ret'.ok
                 /\ k \notin DOMAIN data'
                 /\ k \notin ListKeys(lru')
                 /\ currentSize' = currentSize - 1]_vars

\* Delete has returned true for an entry with a TTL, and the other key was
\* last touched after that TTL had passed, so the entry was expired when
\* Delete ran.
C12_Witness ==
    /\ ret.op = "Delete" /\ ret.ok
    /\ ret.removed = {ret.key}
    /\ ret.old # <<>> /\ ret.old[1] # NilPtr
    /\ \E k \in DOMAIN data : data[k].LastAccessed > ret.old[1][1]

\* ---------------------------------------------------------------- C13
\* C13: once Clear has returned, the map and the list are empty and
\* currentSize is 0 whatever the cache held before, and every key reads as
\* absent (Get not found, Exists false, Delete false); a key that is absent
\* becomes resident again only through a Set on that key.
C13_ClearEmpties ==
    /\ [](ret.op = "Clear" =>
             /\ data = EmptyMap /\ lru = <<>> /\ currentSize = 0
             /\ \A k \in Keys :
                   /\ ~GetOp(Cache, k, now).ok
                   /\ ~ExistsOp(Cache, k, now).ok
                   /\ ~DeleteOp(Cache, k).ok)
    /\ [][\A k \in Keys :
             (k \notin DOMAIN data /\ k \in DOMAIN data')
                 => (ret'.op = "Set" /\ ret'.key = k)]_vars

\* Clear has returned after emptying a cache that held both keys.
C13_Witness ==
    /\ ret.op = "Clear"
    /\ ret.removed = Keys
    /\ data = EmptyMap

\* ---------------------------------------------------------------- C14
\* C14: in every reachable state the hit_rate Stats reports equals the number
\* of resident entries read at least once divided by the number of resident
\* entries, and is 0 when the cache is empty or no resident entry was read.
C14_HitRate ==
    LET resident == Cardinality(DOMAIN data)
        readOnce == Cardinality({k \in DOMAIN data : data[k].AccessCount > 0})
        rate == StatsOp(Cache).stats.hit_rate
    IN /\ rate[2] > 0
       /\ (resident = 0 \/ readOnce = 0) => rate[1] = 0
       /\ resident > 0 => rate[1] * resident = readOnce * rate[2]
       /\ ret.op = "Stats" => ret.stats.hit_rate = rate

\* Stats has reported one half: two resident entries, one of them read twice
\* and the other never.
C14_Witness ==
    /\ ret.op = "Stats"
    /\ ret.stats.hit_rate = <<1, 2>>
    /\ ret.stats.total_accesses = 2

\* ---------------------------------------------------------------- C15
\* C15: a capacity of zero or below is rejected when the cache is built, so
\* no cache with maxSize below 1 ever exists.
C15_CapacityValidated == maxSize >= 1

\* ---------------------------------------------------------------- C17
\* p is between acquiring the mutex and releasing it.
InCritical(p) == proc[p].pc # "idle"

\* C17: while a Get, Set, Delete, Clear or Cleanup is inside its critical
\* section no other call is inside one; only Exists and Stats, which take the
\* mutex shared, overlap each other, and never with a mutating call.
C17_MutualExclusion ==
    \A p \in Procs :
        InCritical(p) =>
            IF proc[p].op \in {"Get", "Set", "Delete", "Clear", "Cleanup"}
            THEN /\ mutex = [w |-> p, r |-> {}]
                 /\ \A q \in Procs \ {p} : ~InCritical(q)
            ELSE /\ proc[p].op \in {"Exists", "Stats"}
                 /\ mutex.w = "" /\ p \in mutex.r
                 /\ \A q \in Procs \ {p} :
                       InCritical(q) => proc[q].op \in {"Exists", "Stats"}

\* An Exists and a Stats are inside their critical sections at the same time.
C17_Witness ==
    \E p, q \in Procs :
        /\ p # q /\ InCritical(p) /\ InCritical(q)
        /\ proc[p].op = "Exists" /\ proc[q].op = "Stats"
        /\ mutex.r = {p, q}

\* ---------------------------------------------------------------- C16
\* C16: Cleanup is advisory.  Whatever Set, Get, Delete and Exists calls are
\* made and however the clock advances between them, every Get and Exists
\* returns the same result on the cache that is reaped at arbitrary points as
\* on the cache that is never reaped.
C16_ReaperAdvisory ==
    ret.op \in {"Get", "Exists"} => (ret.ok = twin.ok /\ ret.val = twin.val)

\* ---------------------------------------------------------------- C18
\* C18: no call blocks for ever.  With a fair mutex and a fair scheduler,
\* every call that has started, by any goroutine and on a cache of any
\* capacity (zero and negative included), eventually returns and releases the
\* mutex; the eviction loop of Set and the scan of Cleanup terminate; and in
\* no reachable state are the started calls all unable to move.
C18_EveryCallReturns ==
    /\ \A p \in Procs : (proc[p].pc # "idle") ~> (proc[p].pc = "idle")
    /\ []((\E p \in Procs : proc[p].pc # "idle")
             => ENABLED (\E p \in Procs : Acquire(p) \/ Step(p)))

\* On a cache of negative capacity a Set is in its eviction loop with the
\* list already empty, while the other goroutine waits for the mutex.
C18_Witness ==
    \E p, q \in Procs :
        /\ maxSize < 0
        /\ proc[p].op = "Set" /\ proc[p].pc = "evict" /\ lru = <<>>
        /\ proc[q].pc = "wait"

\* ---------------------------------------------------------------- C19
\* k is in the map with its TTL passed.
Dead(k) == k \in DOMAIN data /\ IsExpired(data[k], now)

\* C19: with the cleanup routine running and its ticker firing again and
\* again, every entry whose TTL has passed is eventually out of both the map
\* and the list, also when no caller reads, overwrites or deletes its key (a
\* caller that does overwrite it leaves a fresh entry in its place).
C19_ReaperRemovesDead ==
    \A k \in Keys :
        Dead(k) ~> \/ (k \notin DOMAIN data /\ k \notin ListKeys(lru))
                   \/ (k \in DOMAIN data /\ ~IsExpired(data[k], now))

\* The routine has just reaped one expired key that no caller had touched
\* since it was stored, and left the live key in place.
C19_Witness ==
    /\ ret.op = "Cleanup" /\ ret.n = 1
    /\ \E k \in Keys :
          /\ ret.removed = {k}
          /\ k \notin DOMAIN data /\ k \notin ListKeys(lru)
    /\ \E k \in DOMAIN data : ~IsExpired(data[k], now) /\ data[k].AccessCount = 0

\* ---------------------------------------------------------------- C20
\* the clock values from the present on, past the last one the clock reaches
LaterTimes == now..(MaxTime + 2)

\* C20: an entry stored with no TTL never expires by itself.  However far the
\* clock advances, Exists answers true for it, a Get of any key leaves it in
\* the map and Cleanup does not remove it; it leaves the map only in a
\* Delete of its key, a Clear or a Set (eviction or overwrite), and only a
\* Set on its key gives it an expiry.
C20_NoTTLNeverExpires ==
    /\ [](\A k \in DOMAIN data :
             data[k].ExpiresAt = NilPtr =>
                 \A t \in LaterTimes :
                     /\ ExistsOp(Cache, k, t).ok
                     /\ \A k2 \in Keys : k \in DOMAIN GetOp(Cache, k2, t).c.data
                     /\ k \in DOMAIN CleanupOp(Cache, t).c.data
                     /\ k \in ListKeys(CleanupOp(Cache, t).c.lru))
    /\ [][\A k \in DOMAIN data :
             data[k].ExpiresAt = NilPtr =>
                 /\ k \notin DOMAIN data' =>
                       \/ (ret'.op = "Delete" /\ ret'.key = k)
                       \/ ret'.op = "Clear"
                       \/ ret'.op = "Set"
                 /\ (k \in DOMAIN data' /\ data'[k].ExpiresAt # NilPtr) =>
                       (ret'.op = "Set" /\ ret'.key = k)]_vars

\* At the last clock value Cleanup has reaped an expired key and left in
\* place an entry without TTL that was stored at time 0 and not read since.
C20_Witness ==
    /\ now = MaxTime
    /\ ret.op = "Cleanup" /\ ret.n = 1
    /\ \E k \in DOMAIN data :
          /\ data[k].ExpiresAt = NilPtr
          /\ data[k].LastAccessed = 0
          /\ ExistsOp(Cache, k, now).ok

\* ---------------------------------------------------------------- C21
\* C21: a Get that finds its key adds exactly 1 to that entry's AccessCount,
\* puts the entry at the front of the list and returns its stored value; the
\* entry keeps its value and expiry, every other entry keeps all its fields
\* and the other entries keep their order among themselves.  The AccessCount
\* of an entry never goes down while the entry stays in the map (a Set on its
\* key replaces the entry by a new one).
C21_GetTouchesOneEntry ==
    [][/\ \A k \in FrameKeys :
             (ret'.op = "Get" /\ ret'.key = k /\ ret'.ok /\ Get(k)) =>
                 /\ k \in DOMAIN data
                 /\ data'[k].AccessCount = data[k].AccessCount + 1
                 /\ lru'[1] = k
                 /\ ret'.val = data[k].Value
                 /\ data'[k].Value = data[k].Value
                 /\ data'[k].ExpiresAt = data[k].ExpiresAt
                 /\ DOMAIN data' = DOMAIN data
                 /\ \A j \in (DOMAIN data) \ {k} : data'[j] = data[j]
                 /\ ListRemove(lru', k) = ListRemove(lru, k)
                 /\ currentSize' = currentSize /\ maxSize' = maxSize
       /\ \A k \in (DOMAIN data) \cap (DOMAIN data') :
             ~(ret'.op = "Set" /\ ret'.key = k) =>
                 data'[k].AccessCount >= data[k].AccessCount]_vars

\* Get has found its key a second time in a cache of three entries and put
\* it in front of the two others.
C21_Witness ==
    /\ ret.op = "Get" /\ ret.ok
    /\ Len(lru) = 3 /\ lru[1] = ret.key
    /\ data[ret.key].AccessCount = 2

\* ---------------------------------------------------------------- C22
\* C22: on a cache of capacity 1 or more, Set(k, v, ttl) on a key that is in
\* the map gives exactly the state that Delete(k) followed by Set(k, v, ttl)
\* gives: a new entry for k at the front of the list, with AccessCount 0, the
\* new value and the new expiry, and nothing kept of the old entry's place,
\* count or expiry.
C22_OverwriteIsDeleteThenSet ==
    /\ maxSize >= 1 =>
          \A k \in DOMAIN data, v \in Values, ttl \in TTLs :
              LET c2 == SetOp(Cache, k, v, ttl, now)
              IN /\ c2 = SetOp(DeleteOp(Cache, k).c, k, v, ttl, now)
                 /\ k \in DOMAIN c2.data
                 /\ c2.data[k] = NewEntry(k, v, ttl, now)
                 /\ c2.lru = <<k>> \o ListRemove(lru, k)
                 /\ c2.currentSize = currentSize
    /\ (maxSize >= 1 /\ ret.op = "Set" /\ ret.old # <<>>) =>
          /\ ret.removed = {}
          /\ lru[1] = ret.key
          /\ data[ret.key].AccessCount = 0
          /\ \E v \in Values, ttl \in TTLs :
                data[ret.key] = NewEntry(ret.key, v, ttl, data[ret.key].LastAccessed)

\* Set has overwritten an entry that carried a TTL with one that has none:
\* the key is at the front, ahead of an entry that has been read.
C22_Witness ==
    /\ ret.op = "Set" /\ ret.old # <<>> /\ ret.old[1] # NilPtr
    /\ Len(lru) = 2 /\ lru[1] = ret.key
    /\ data[ret.key].ExpiresAt = NilPtr
    /\ data[lru[2]].AccessCount > 0

\* ---------------------------------------------------------------- C23
\* the keys of list l that are in S, in the order of l
Surviving(l, S) == SelectSeq(l, LAMBDA x : x \in S)

\* C23: in every reachable state the list, front to back, holds the entries
\* of the map from the most recently touched (by Set or by a Get that found
\* it) to the least recently touched; so the entry a Set evicts is one whose
\* last touch is the oldest among the entries it could evict, expired or not.
\* Exists, Stats, Delete, Cleanup and a Get that finds nothing leave the
\* remaining entries in the order they had.
C23_ListOrderedByLastTouch ==
    /\ \A i, j \in 1..Len(lru) :
          i < j => data[lru[i]].LastAccessed >= data[lru[j]].LastAccessed
    /\ \A k \in FrameKeys, ttl \in ConcTTLs :
          LET c2 == SetOp(Cache, k, LRUValue, ttl, now)
          IN \A e \in (DOMAIN data) \ (DOMAIN c2.data) :
                /\ e = ListBack(ListRemove(lru, k))
                /\ \A j \in (DOMAIN data) \ {k} :
                      data[e].LastAccessed <= data[j].LastAccessed
    /\ \A k \in FrameKeys :
          /\ ExistsOp(Cache, k, now).c.lru = lru
          /\ DeleteOp(Cache, k).c.lru = Surviving(lru, (DOMAIN data) \ {k})
          /\ ~GetOp(Cache, k, now).ok =>
                GetOp(Cache, k, now).c.lru = Surviving(lru, (DOMAIN data) \ {k})
    /\ StatsOp(Cache).c.lru = lru
    /\ LET c2 == CleanupOp(Cache, now)
       IN c2.c.lru = Surviving(lru, DOMAIN c2.c.data)

\* A Set has evicted one entry from a full cache and an expired entry is still
\* there, behind the new one: the victim was chosen by its place in the list,
\* not by its expiry.
C23_Witness ==
    /\ ret.op = "Set" /\ Cardinality(ret.removed) = 1 /\ ret.key \notin ret.removed
    /\ Len(lru) = 2 /\ lru[1] = ret.key
    /\ IsExpired(data[lru[2]], data[lru[1]].LastAccessed)

\* ---------------------------------------------------------------- C24
\* C24: Cleanup tests an entry's expiry and removes it inside one critical
\* section.  Under every interleaving with other callers, from its Lock to
\* its Unlock a Cleanup holds the mutex alone and no other call is past its
\* own Lock, so none sees the map between two removals; the entry Cleanup is
\* removing is expired at the moment it leaves the list and the map (no Set
\* can have replaced it since the test), and stays out until Cleanup moves on.
C24_CleanupOneSection ==
    \A p \in Procs :
        (proc[p].op = "Cleanup" /\ proc[p].pc # "idle") =>
            /\ mutex = [w |-> p, r |-> {}]
            /\ \A q \in Procs \ {p} : proc[q].pc = "idle"
            /\ proc[p].pc \in {"rm_list", "rm_map"} =>
                  /\ proc[p].rm \in DOMAIN data
                  /\ IsExpired(data[proc[p].rm], now)
            /\ proc[p].pc \in {"rm_size", "scan_del"} => proc[p].rm \notin DOMAIN data
            /\ proc[p].pc \in {"scan", "return"} => currentSize = Cardinality(DOMAIN data)

\* A Cleanup that has already removed one expired entry is taking a second
\* one out of the map, still inside the same critical section.
C24_Witness ==
    \E p \in Procs :
        /\ proc[p].op = "Cleanup" /\ proc[p].pc = "rm_map" /\ proc[p].n = 1
        /\ proc[p].rm \in DOMAIN data
        /\ IsExpired(data[proc[p].rm], now)

\* ---------------------------------------------------------------- C25
\* C25: Cleanup leaves every entry that is not expired, those without TTL
\* among them, in the map with all its fields as they were, and leaves the
\* surviving entries in the order they had; it returns the number of entries
\* it removed, and when nothing is expired it returns 0 and changes nothing.
C25_CleanupKeepsLive ==
    [][(ret'.op = "Cleanup" /\ Cleanup) =>
          LET live == {k \in DOMAIN data : ~IsExpired(data[k], now)}
          IN /\ DOMAIN data' = live
             /\ \A k \in live : data'[k] = data[k]
             /\ lru' = Surviving(lru, live)
             /\ ret'.n = Cardinality((DOMAIN data) \ live)
             /\ currentSize' = currentSize - ret'.n
             /\ maxSize' = maxSize
             /\ live = DOMAIN data =>
                   (ret'.n = 0 /\ UNCHANGED <<data, lru, currentSize, maxSize>>)]_vars

\* Cleanup has removed one expired entry and left two: one without TTL that
\* has been read, and one whose TTL has not passed yet.
C25_Witness ==
    /\ ret.op = "Cleanup" /\ ret.n = 1
    /\ Len(lru) = 2
    /\ \E k \in DOMAIN data : data[k].ExpiresAt = NilPtr /\ data[k].AccessCount > 0
    /\ \E k \in DOMAIN data : data[k].ExpiresAt # NilPtr /\ ~IsExpired(data[k], now)

\* ---------------------------------------------------------------- C26
\* C26: on a cache of capacity 1 or more that holds no more than its
\* capacity, a Set evicts at most one entry: none when its key is already in
\* the map (every other key stays) or when the cache is not full, and exactly
\* the back of the list when a new key goes into a full cache.  The key just
\* set is never the one evicted, and the entries that stay keep their fields.
C26_SetEvictsAtMostOne ==
    (maxSize >= 1 /\ currentSize <= maxSize) =>
        \A k \in FrameKeys, ttl \in ConcTTLs :
            LET c2 == SetOp(Cache, k, LRUValue, ttl, now)
                evicted == (DOMAIN data) \ (DOMAIN c2.data)
            IN /\ Cardinality(evicted) <= 1
               /\ k \in DOMAIN c2.data /\ c2.lru[1] = k
               /\ (k \in DOMAIN data \/ currentSize < maxSize) => evicted = {}
               /\ (k \notin DOMAIN data /\ currentSize = maxSize) =>
                      evicted = {ListBack(lru)}
               /\ DOMAIN c2.data = ((DOMAIN data) \cup {k}) \ evicted
               /\ \A j \in (DOMAIN c2.data) \ {k} : c2.data[j] = data[j]
               /\ c2.currentSize = Cardinality(DOMAIN c2.data)
               /\ c2.currentSize <= maxSize

\* A Set has overwritten a key of a full cache of capacity 3: nothing was
\* evicted and the two other keys are still there behind it.
C26_Witness ==
    /\ maxSize = 3 /\ currentSize = 3
    /\ ret.op = "Set" /\ ret.old # <<>> /\ ret.removed = {}
    /\ lru[1] = ret.key
    /\ DOMAIN data = FrameKeys

\* ---------------------------------------------------------------- C27
\* C27: a Get that reports not-found changes nothing but the entry it looked
\* up.  On a key that is not in the map the cache is left as it was; on an
\* expired key exactly that entry leaves the map and the list, currentSize
\* goes down by 1, and every other entry keeps its fields and its place
\* among the others.
C27_FailedGetFrame ==
    /\ \A k \in FrameKeys :
          LET r == GetOp(Cache, k, now)
          IN ~r.ok =>
                /\ r.val = NilValue
                /\ k \notin DOMAIN data => r.c = Cache
                /\ k \in DOMAIN data =>
                      /\ IsExpired(data[k], now)
                      /\ DOMAIN r.c.data = (DOMAIN data) \ {k}
                      /\ \A j \in DOMAIN r.c.data : r.c.data[j] = data[j]
                      /\ r.c.lru = Surviving(lru, (DOMAIN data) \ {k})
                      /\ r.c.currentSize = currentSize - 1
                      /\ r.c.maxSize = maxSize
    /\ (ret.op = "Get" /\ ~ret.ok) =>
          /\ ret.removed \subseteq {ret.key}
          /\ ret.key \notin DOMAIN data
          /\ ret.removed = {} <=> ret.old = <<>>

\* Get has found its key expired in a cache of capacity three and removed
\* it alone; two other entries, one of them read before, are still there.
C27_Witness ==
    /\ ret.op = "Get" /\ ~ret.ok /\ ret.removed = {ret.key}
    /\ maxSize = 3 /\ Len(lru) = 2 /\ currentSize = 2
    /\ \E k \in DOMAIN data : data[k].AccessCount > 0

\* ---------------------------------------------------------------- C28
\* the clock values an expiry is compared with
ExpiryTimes == (0 - 1)..(MaxTime + 2)

\* C28: Get, Exists and Cleanup apply the same strict comparison.  An entry
\* with ExpiresAt = e is live for all three at every time up to and including
\* e and expired for all three at every later time.  So an entry set with a
\* TTL of 0 is live at the instant it is stored and expired at every later
\* one, and an entry set with a negative TTL is expired from the moment it is
\* stored, while it is in the map and counted in currentSize.
C28_StrictExpiry ==
    /\ \A k \in DOMAIN data :
          data[k].ExpiresAt # NilPtr =>
              \A t \in ExpiryTimes :
                  LET live == t <= data[k].ExpiresAt[1]
                  IN /\ GetOp(Cache, k, t).ok = live
                     /\ ExistsOp(Cache, k, t).ok = live
                     /\ (k \in DOMAIN CleanupOp(Cache, t).c.data) = live
    /\ \A k \in Keys, ttl \in ExpiryTTLs \ {NilPtr} :
          LET c2 == SetOp(Cache, k, LRUValue, ttl, now)
          IN k \in DOMAIN c2.data =>
                /\ c2.data[k].ExpiresAt = <<now + ttl[1]>>
                /\ c2.currentSize = Cardinality(DOMAIN c2.data)
                /\ ttl[1] = 0 =>
                      /\ GetOp(c2, k, now).ok /\ ExistsOp(c2, k, now).ok
                      /\ k \in DOMAIN CleanupOp(c2, now).c.data
                      /\ \A t \in (now + 1)..(MaxTime + 2) :
                            /\ ~GetOp(c2, k, t).ok /\ ~ExistsOp(c2, k, t).ok
                            /\ k \notin DOMAIN CleanupOp(c2, t).c.data
                /\ ttl[1] < 0 =>
                      /\ ~GetOp(c2, k, now).ok /\ ~ExistsOp(c2, k, now).ok
                      /\ k \notin DOMAIN CleanupOp(c2, now).c.data

\* A Set with a negative TTL into a full cache of capacity 1 has evicted the
\* entry that was there; the new entry is in the map, counted, and already
\* expired at the instant it was stored.
C28_Witness ==
    /\ maxSize = 1 /\ currentSize = 1
    /\ ret.op = "Set" /\ Cardinality(ret.removed) = 1 /\ ret.key \notin ret.removed
    /\ ret.key \in DOMAIN data
    /\ IsExpired(data[ret.key], data[ret.key].LastAccessed)

\* ---------------------------------------------------------------- C29
\* C29: Stats reads one state and changes nothing.  In every result
\* total_keys and current_size both equal the number of entries in the map,
\* expired entries not yet removed included; max_size is the capacity given
\* to NewCache; total_accesses is the sum of AccessCount over the entries in
\* the map.
C29_StatsSnapshot ==
    LET r == StatsOp(Cache)
        reads == {<<k, i>> \in (DOMAIN data) \X (1..(MaxAccess + 1)) :
                     i <= data[k].AccessCount}
    IN /\ r.c = Cache
       /\ r.stats.total_keys = Cardinality(DOMAIN data)
       /\ r.stats.current_size = r.stats.total_keys
       /\ r.stats.current_size = Len(lru)
       /\ r.stats.max_size = maxSize
       /\ r.stats.total_accesses = Cardinality(reads)
       /\ ret.op = "Stats" => (ret.stats = r.stats /\ ret.removed = {})

\* Stats has counted two entries, one of them expired and not yet removed,
\* and three reads in all.
C29_Witness ==
    /\ ret.op = "Stats"
    /\ ret.stats.total_keys = 2 /\ ret.stats.current_size = 2
    /\ ret.stats.total_accesses = 3
    /\ \E k \in DOMAIN data : IsExpired(data[k], now)

\* ---------------------------------------------------------------- C30
\* one of the conditions under which Validate is to return an error
Rejected(c) ==
    \/ c.Server.Port \notin 1..65535
    \/ c.Server.HTTPPort \notin 1..65535
    \/ c.Cache.MaxMemory < 1024 * 1024
    \/ c.Cache.ShardCount < 1
    \/ (c.Cluster.Enabled /\ c.Cluster.Seeds = <<>>)
    \/ (c.Security.EnableAuth /\ c.Security.JWTSecret = "")
    \/ (c.Security.EnableAuth /\ c.Security.JWTExpiry < 60)

\* C30: Validate returns an error exactly when the server port or the HTTP
\* port is outside 1..65535, MaxMemory is below 1 MiB, ShardCount is below 1,
\* clustering is enabled with no seeds, or auth is enabled with an empty JWT
\* secret or a JWT expiry under one minute, and nil otherwise.  LoadConfig
\* returns a configuration only when that configuration passes Validate, and
\* returns an error and no configuration otherwise.
C30_ValidateExact ==
    /\ (Validate(load.config) # NoError) <=> Rejected(load.config)
    /\ load.pc = "return" => ((load.err # NoError) <=> Rejected(load.config))
    /\ load.pc = "done" =>
          /\ (load.out # NilPtr) <=> (load.err = NoError)
          /\ load.out # NilPtr =>
                (load.out[1] = load.config /\ Validate(load.out[1]) = NoError)
          /\ load.out = NilPtr <=> (load.err # NoError)

\* LoadConfig has returned a configuration with auth disabled whose JWT
\* secret is empty and whose JWT expiry is under a minute: both are checked
\* only when auth is enabled.
C30_Witness ==
    /\ load.pc = "done" /\ load.out # NilPtr /\ load.err = NoError
    /\ ~load.out[1].Security.EnableAuth
    /\ load.out[1].Security.JWTSecret = ""
    /\ load.out[1].Security.JWTExpiry < 60
    /\ load.out[1].Cluster.Enabled

\* ---------------------------------------------------------------- C31
\* flags, file and environment have all been applied to load.config
EnvApplied ==
    \/ load.pc \in {"validate", "return"}
    \/ load.pc = "done" /\ load.err # "failed to load config from file"

\* the document of the config file, empty when no file was asked for
LoadedDoc == IF "config" \in DOMAIN load.args THEN load.file.doc[1] ELSE <<>>

\* the value of a field under file over flag over default
BeforeEnv(key, flag, default) ==
    IF key \in DOMAIN LoadedDoc THEN LoadedDoc[key]
    ELSE IF flag \in DOMAIN load.args THEN load.args[flag]
    ELSE default

\* what the texts given to the numeric and boolean variables mean, NilPtr for
\* a text that is empty or that strconv rejects
IntMeant(text) ==
    IF text = <<"7", "0", "0", "2">> THEN <<7002>>
    ELSE IF text = <<"+", "9", "0", "0", "2">> THEN <<9002>>
    ELSE IF text = <<"8", "3", "8", "8", "6", "0", "8">> THEN <<8388608>>
    ELSE NilPtr

BoolMeant(text) ==
    IF text = <<"1">> THEN <<TRUE>>
    ELSE IF text = <<"F">> THEN <<FALSE>>
    ELSE NilPtr

\* the variable's value if it has one, else the value loaded before
Over(meant, before) == IF meant # NilPtr THEN meant[1] ELSE before

NoOverrides ==
    /\ load.pc # "none"
    /\ DOMAIN load.args = {}
    /\ load.env.CACHE_HOST = "" /\ load.env.CACHE_PORT = <<>>
    /\ load.env.CACHE_HTTP_PORT = <<>> /\ load.env.CACHE_MAX_MEMORY = <<>>
    /\ load.env.CACHE_CLUSTER_ENABLED = <<>> /\ load.env.CACHE_CLUSTER_SEEDS = <<>>
    /\ load.env.CACHE_AUTH_ENABLED = <<>> /\ load.env.CACHE_JWT_SECRET = ""

\* C32: the configuration DefaultConfig returns passes Validate (Validate
\* returns nil on it), so LoadConfig with no file, no flags and no
\* environment overrides succeeds: it never takes an error path and what it
\* returns is the default configuration with a nil error.
C32_DefaultsValid ==
    /\ Validate(DefaultConfig) = NoError
    /\ NoOverrides =>
          /\ load.config = DefaultConfig
          /\ load.err = NoError
          /\ load.pc # "file_error"
          /\ load.pc = "done" => load.out = <<DefaultConfig>>

\* LoadConfig without overrides has returned the default configuration.
C32_Witness ==
    /\ NoOverrides
    /\ load.pc = "done"
    /\ load.err = NoError
    /\ load.out = <<DefaultConfig>>

=============================================================================
